---- MODULE Spec2Model ----
(***************************************************************************)
(* Model of the installer engine of src/program_install.py:                *)
(* WindowsUtils.check_registry (the Installed-State Inspector),            *)
(* ProgramInstaller.scan_for_installers (the Catalog Matcher),             *)
(* check_installation_status, install_program,                             *)
(* install_unidentified_program, uninstall_program and the installation    *)
(* log (the Ledger).                                                       *)
(*                                                                         *)
(* Text is a sequence of atoms.  An atom is one character, or a token the  *)
(* code never looks inside: "{G1}" and "{G2}" are product-code GUIDs in    *)
(* braces, "D1" and "D2" are directory paths.  None of Python             *)
(* is <<"<None>">>, which no text equals.                                  *)
(***************************************************************************)
EXTENDS Integers, Sequences, FiniteSets, TLC

VARIABLES
    config,                  \* ProgramInstaller.config: the catalog (fixed after construction)
    registry,                \* the Windows registry: key path -> [denied, vals]
    msi_products,            \* product codes the Windows Installer service reports
    search_path,             \* ProgramInstaller.search_path
    program_status,          \* ProgramInstaller.program_status: key -> ProgramStatus
    unidentified_installers, \* ProgramInstaller.unidentified_installers
    installation_log,        \* ProgramInstaller.installation_log (the ledger in memory)
    log_file,                \* ProgramInstaller._log_file is not None
    disk_log,                \* content of the ledger file on disk
    last,                    \* the last call: operation, arguments, steps taken, result
    tree,                    \* the directories and files under the search path
    fs,                      \* the ledger file, its .tmp and its .corrupt, as they are on disk
    threads,                 \* the WorkerThreads created, each with the point its run() is at
    active_threads,          \* ProgramInstallerUI.active_threads
    ui                       \* the window: selection, enabled buttons and actions

\* what the engine's methods, taken as single calls, leave alone
outside == <<tree, fs, threads, active_threads, ui>>

vars == <<config, registry, msi_products, search_path, program_status,
          unidentified_installers, installation_log, log_file, disk_log, last, outside>>

\* nothing of it in use
OutsideIdle ==
    /\ tree = <<>>
    /\ fs = <<>>
    /\ threads = <<>>
    /\ active_threads = <<>>
    /\ ui = <<>>

-----------------------------------------------------------------------------
(* Text *)

None == <<"<None>">>

UpperCase == <<"A","B","C","D","E","F","G","H","I","J","K","L","M",
               "N","O","P","Q","R","S","T","U","V","W","X","Y","Z">>
LowerCase == <<"a","b","c","d","e","f","g","h","i","j","k","l","m",
               "n","o","p","q","r","s","t","u","v","w","x","y","z">>

\* str.lower() on one character
LowerChar(c) ==
    IF \E i \in 1..Len(UpperCase) : UpperCase[i] = c
    THEN LowerCase[CHOOSE i \in 1..Len(UpperCase) : UpperCase[i] = c]
    ELSE c

\* str.lower()
Lower(s) == [i \in 1..Len(s) |-> LowerChar(s[i])]

\* Python truthiness of an Optional[str]
Truthy(s) == s # None /\ s # <<>>

\* sub in s
Contains(sub, s) ==
    \E i \in 0..(Len(s) - Len(sub)) : SubSeq(s, i + 1, i + Len(sub)) = sub

\* s.startswith(p), s.endswith(p)
StartsWith(s, p) == Len(p) <= Len(s) /\ SubSeq(s, 1, Len(p)) = p
EndsWith(s, p) == Len(p) <= Len(s) /\ SubSeq(s, Len(s) - Len(p) + 1, Len(s)) = p

RECURSIVE LStrip(_)
LStrip(s) == IF s # <<>> /\ Head(s) = " " THEN LStrip(Tail(s)) ELSE s

RECURSIVE RStrip(_)
RStrip(s) ==
    IF s # <<>> /\ s[Len(s)] = " " THEN RStrip(SubSeq(s, 1, Len(s) - 1)) ELSE s

\* str.strip()
Strip(s) == RStrip(LStrip(s))

\* fnmatch.fnmatch(name, pat) for patterns of literals, "*" and "?"
RECURSIVE FnMatch(_, _)
FnMatch(name, pat) ==
    IF pat = <<>> THEN name = <<>>
    ELSE IF Head(pat) = "*"
         THEN FnMatch(name, Tail(pat)) \/ (name # <<>> /\ FnMatch(Tail(name), pat))
         ELSE /\ name # <<>>
              /\ (Head(pat) = "?" \/ Head(pat) = Head(name))
              /\ FnMatch(Tail(name), Tail(pat))

\* re.match(pattern, s, re.IGNORECASE) for patterns of literals and ".*" (one
\* atom): anchored at the start of s only
RECURSIVE ReMatch(_, _)
ReMatch(pattern, s) ==
    IF pattern = <<>> THEN TRUE
    ELSE IF Head(pattern) = ".*"
         THEN ReMatch(Tail(pattern), s) \/ (s # <<>> /\ ReMatch(pattern, Tail(s)))
         ELSE /\ s # <<>>
              /\ LowerChar(Head(pattern)) = LowerChar(Head(s))
              /\ ReMatch(Tail(pattern), Tail(s))

\* order of characters (code points) for the characters file names use here
CharOrder == <<" ", ".", "_", "a","b","c","d","e","f","g","h","i","j","k","l","m",
               "n","o","p","q","r","s","t","u","v","w","x","y","z">>
CharRank(c) ==
    IF \E i \in 1..Len(CharOrder) : CharOrder[i] = c
    THEN CHOOSE i \in 1..Len(CharOrder) : CharOrder[i] = c
    ELSE 0

\* a < b for str
RECURSIVE StrLess(_, _)
StrLess(a, b) ==
    IF b = <<>> THEN FALSE
    ELSE IF a = <<>> THEN TRUE
    ELSE IF Head(a) = Head(b) THEN StrLess(Tail(a), Tail(b))
    ELSE CharRank(Head(a)) < CharRank(Head(b))

-----------------------------------------------------------------------------
(* The registry.  A key is named by <<hive>> \o path; registry maps the keys  *)
(* that exist to [denied |-> the key cannot be opened (PermissionError),     *)
(* vals |-> value name -> [type, data]].                                     *)

RegKey(hive, path) == <<hive>> \o path

KeyExists(reg, k) == k \in DOMAIN reg

\* winreg.OpenKey: "ok", "FileNotFoundError" or "OSError"
OpenKey(reg, k) ==
    IF ~KeyExists(reg, k) THEN "FileNotFoundError"
    ELSE IF reg[k].denied THEN "OSError"
    ELSE "ok"

\* names winreg.EnumKey returns for key k, in index order
SubkeyOrder == <<"A", "B", "C">>
RECURSIVE EnumKeysFrom(_, _, _)
EnumKeysFrom(reg, k, i) ==
    IF i > Len(SubkeyOrder) THEN <<>>
    ELSE (IF KeyExists(reg, k \o <<SubkeyOrder[i]>>) THEN <<SubkeyOrder[i]>> ELSE <<>>)
         \o EnumKeysFrom(reg, k, i + 1)
EnumKey(reg, k) == EnumKeysFrom(reg, k, 1)

\* WindowsUtils._reg_read_string(hkey, key_path, value_name)
_reg_read_string(reg, k, value_name) ==
    IF value_name = None THEN None
    ELSE IF OpenKey(reg, k) # "ok" THEN None
    ELSE IF value_name \notin DOMAIN reg[k].vals THEN None
    ELSE IF reg[k].vals[value_name].type \in {"REG_SZ", "REG_EXPAND_SZ"}
         THEN Strip(reg[k].vals[value_name].data)
         ELSE None

-----------------------------------------------------------------------------
(* WindowsUtils.check_registry.  A rule is a record with the fields the    *)
(* code reads with rule.get: path, hive, match_value, match_pattern,       *)
(* check_existence, get_value (None when the rule does not give one).      *)

Rule(path, match_value, match_pattern, check_existence, get_value) ==
    [path |-> path, hive |-> "HKLM", match_value |-> match_value,
     match_pattern |-> match_pattern, check_existence |-> check_existence,
     get_value |-> get_value]

\* hkey_map.get(base_hive_str, winreg.HKEY_LOCAL_MACHINE)
BaseHive(rule) == IF rule.hive \in {"HKLM", "HKCU"} THEN rule.hive ELSE "HKLM"

\* "if found_version and first_found_version is None: first_found_version = found_version"
KeepFirstTruthy(first_found_version, found_version) ==
    IF Truthy(found_version) /\ first_found_version = None
    THEN found_version ELSE first_found_version

\* rule type 2, the while loop over the subkeys of k from position i on: every
\* subkey is visited, a match sets found_globally and the first non-empty
\* version read from a matching subkey is kept
RECURSIVE MatchSubkeys(_, _, _, _, _, _)
MatchSubkeys(reg, k, rule, names, i, acc) ==
    IF i > Len(names) THEN acc
    ELSE LET sub == k \o <<names[i]>>
             value_to_match == _reg_read_string(reg, sub, rule.match_value)
             hit == Truthy(value_to_match) /\ ReMatch(rule.match_pattern, value_to_match)
             found_version == _reg_read_string(reg, sub, rule.get_value)
             acc2 == IF hit
                     THEN [found_globally |-> TRUE,
                           first_found_version |->
                               KeepFirstTruthy(acc.first_found_version, found_version),
                           continued |-> FALSE]
                     ELSE acc
         IN MatchSubkeys(reg, k, rule, names, i + 1, acc2)

\* mutant: an existence rule counts as satisfied only if its key yields a value
RuleBody_ExistenceNeedsValue(reg, rule, acc) ==
    LET k == RegKey(BaseHive(rule), rule.path)
        skip == [acc EXCEPT !.continued = TRUE]
        stay == [acc EXCEPT !.continued = FALSE]
    IN IF ~Truthy(rule.path) THEN skip
       ELSE IF rule.check_existence
       THEN IF OpenKey(reg, k) # "ok" \/ ~Truthy(_reg_read_string(reg, k, rule.get_value))
            THEN skip
            ELSE [found_globally |-> TRUE,
                  first_found_version |->
                      KeepFirstTruthy(acc.first_found_version,
                                      _reg_read_string(reg, k, rule.get_value)),
                  continued |-> FALSE]
       ELSE IF Truthy(rule.match_value) /\ Truthy(rule.match_pattern)
       THEN IF OpenKey(reg, k) # "ok" THEN skip
            ELSE MatchSubkeys(reg, k, rule, EnumKey(reg, k), 1, stay)
       ELSE IF Truthy(rule.get_value)
       THEN LET found_version == _reg_read_string(reg, k, rule.get_value)
            IN IF found_version # None
               THEN [found_globally |-> TRUE,
                     first_found_version |->
                         IF acc.first_found_version = None
                         THEN found_version ELSE acc.first_found_version,
                     continued |-> FALSE]
               ELSE skip
       ELSE stay

\* the body of "for rule in check_config" up to the final "if found_globally";
\* continued is TRUE when the body left through a continue statement
RuleBody(reg, rule, acc) ==
    LET k == RegKey(BaseHive(rule), rule.path)
        skip == [acc EXCEPT !.continued = TRUE]
        stay == [acc EXCEPT !.continued = FALSE]
    IN IF ~Truthy(rule.path) THEN skip
       ELSE IF rule.check_existence
       THEN IF OpenKey(reg, k) # "ok" THEN skip
            ELSE [found_globally |-> TRUE,
                  first_found_version |->
                      KeepFirstTruthy(acc.first_found_version,
                                      _reg_read_string(reg, k, rule.get_value)),
                  continued |-> FALSE]
       ELSE IF Truthy(rule.match_value) /\ Truthy(rule.match_pattern)
       THEN IF OpenKey(reg, k) # "ok" THEN skip
            ELSE MatchSubkeys(reg, k, rule, EnumKey(reg, k), 1, stay)
       ELSE IF Truthy(rule.get_value)
       THEN LET found_version == _reg_read_string(reg, k, rule.get_value)
            IN IF found_version # None
               THEN [found_globally |-> TRUE,
                     first_found_version |->
                         IF acc.first_found_version = None
                         THEN found_version ELSE acc.first_found_version,
                     continued |-> FALSE]
               ELSE skip
       ELSE stay

\* mutant: the loop without its "if found_globally: return"
RECURSIVE CheckRegistryFrom_NoReturn(_, _, _, _)
CheckRegistryFrom_NoReturn(reg, check_config, i, acc) ==
    IF i > Len(check_config)
    THEN [found |-> acc.found_globally, version |-> acc.first_found_version,
          consulted |-> Len(check_config)]
    ELSE CheckRegistryFrom_NoReturn(reg, check_config, i + 1,
                                    RuleBody(reg, check_config[i], acc))

\* the for loop from rule i on; consulted is the number of rules the loop looked at
RECURSIVE CheckRegistryFrom(_, _, _, _)
CheckRegistryFrom(reg, check_config, i, acc) ==
    IF i > Len(check_config)
    THEN [found |-> acc.found_globally, version |-> acc.first_found_version,
          consulted |-> Len(check_config)]
    ELSE LET a == RuleBody(reg, check_config[i], acc)
         IN IF ~a.continued /\ a.found_globally
            THEN [found |-> a.found_globally, version |-> a.first_found_version,
                  consulted |-> i]
            ELSE CheckRegistryFrom(reg, check_config, i + 1, a)

\* WindowsUtils.check_registry(check_config) -> (found, version)
check_registry(reg, check_config) ==
    CheckRegistryFrom(reg, check_config, 1,
        [found_globally |-> FALSE, first_found_version |-> None, continued |-> FALSE])

\* WindowsUtils.is_msi_product_installed(product_code)
is_msi_product_installed(products, product_code) ==
    IF ~Truthy(product_code) THEN FALSE ELSE product_code \in products

-----------------------------------------------------------------------------
(* The catalog (PROGRAM_CONFIG): key -> configuration, in dict order.       *)

V_DisplayName == <<"DisplayName">>
V_DisplayVersion == <<"DisplayVersion">>
V_UninstallString == <<"UninstallString">>
V_InstallLocation == <<"InstallLocation">>
V_Version == <<"Version">>

UninstallPath == <<"Uninstall">>        \* SOFTWARE\Microsoft\Windows\CurrentVersion\Uninstall
WowUninstallPath == <<"WowUninstall">>  \* SOFTWARE\WOW6432Node\...\Uninstall

\* {"path": Uninstall, "match_value": "DisplayName", "match_pattern": r"App.*", "get_value": "DisplayVersion"}
R_EnumApp == Rule(UninstallPath, V_DisplayName, <<"A","p","p",".*">>, FALSE, V_DisplayVersion)
\* {"path": r"SOFTWARE\Vendor\App", "check_existence": True}
R_ExistApp == Rule(<<"Vendor", "App">>, None, None, TRUE, None)
\* {"path": r"SOFTWARE\Vendor\Tool", "check_existence": True, "get_value": "Version"}
R_ExistTool == Rule(<<"Vendor", "Tool">>, None, None, TRUE, V_Version)
\* {"path": r"SOFTWARE\Vendor\Tool2", "get_value": "Version"}
R_ReadTool == Rule(<<"Vendor", "Tool2">>, None, None, FALSE, V_Version)
\* {"match_value": "DisplayName", "match_pattern": r"Tool.*"}: a rule without a path
R_NoPath == Rule(None, V_DisplayName, <<"T","o","o","l",".*">>, FALSE, None)
\* {"path": Uninstall, "match_value": "DisplayName", "match_pattern": r"tool.*", "get_value": "DisplayVersion"}
R_EnumTool == Rule(UninstallPath, V_DisplayName, <<"t","o","o","l",".*">>, FALSE, V_DisplayVersion)

T_cmd_exe_S == <<"{installer_path}"," ","/","S"," ","/","N","O","R","E","S","T","A","R","T">>
T_cmd_exe_isv == <<"{installer_path}"," ","/","s"," ","/","v","\"","/","q","n"," ","/","n","o","r","e","s","t","a","r","t","\"">>
T_cmd_msi == <<"m","s","i","e","x","e","c"," ","/","i"," ","\"","{installer_path}","\""," ","/","q","n"," ","/","n","o","r","e","s","t","a","r","t">>

Cfg_app ==
    [display_name |-> <<"A","p","p">>,
     identity |-> [expected_product_names |-> << <<"A","p","p">> >>,
                   expected_descriptions |-> << <<"A","p","p"," ","S","e","t","u","p">> >>,
                   installer_patterns |-> << <<"A","p","p","*",".","e","x","e">>,
                                             <<"S","e","t","u","p","*",".","e","x","e">> >>],
     check_method |-> [type |-> "registry", keys |-> <<R_EnumApp, R_ExistApp>>,
                       product_code |-> None],
     install_commands |-> (".exe" :> T_cmd_exe_S @@ ".msi" :> T_cmd_msi)]

Cfg_tool ==
    [display_name |-> <<"T","o","o","l">>,
     identity |-> [expected_product_names |-> << <<"T","o","o","l">> >>,
                   expected_descriptions |-> <<>>,
                   installer_patterns |-> << <<"T","o","o","l","*",".","m","s","i">>,
                                             <<"S","e","t","u","p","*",".","e","x","e">> >>],
     check_method |-> [type |-> "registry", keys |-> <<R_ExistTool, R_ReadTool>>,
                       product_code |-> None],
     install_commands |-> (".msi" :> T_cmd_msi)]

Cfg_doc ==
    [display_name |-> <<"D","o","c">>,
     identity |-> [expected_product_names |-> <<>>,
                   expected_descriptions |-> << <<"S","e","t","u","p">> >>,
                   installer_patterns |-> << <<"d","o","c","*">> >>],
     check_method |-> [type |-> "msi_product_code", keys |-> <<>>,
                       product_code |-> <<"{G2}">>],
     install_commands |-> (".exe" :> T_cmd_exe_isv @@ ".msi" :> T_cmd_msi)]

\* a catalog: keys in dict order, and the configuration of each
Catalog2 == [keys |-> <<"app", "tool">>, cfg |-> ("app" :> Cfg_app @@ "tool" :> Cfg_tool)]
Catalog3 == [keys |-> <<"app", "tool", "doc">>,
             cfg |-> ("app" :> Cfg_app @@ "tool" :> Cfg_tool @@ "doc" :> Cfg_doc)]
Catalog_app == [keys |-> <<"app">>, cfg |-> ("app" :> Cfg_app)]
Catalog_tool == [keys |-> <<"tool">>, cfg |-> ("tool" :> Cfg_tool)]

ConfigKeys == {config.keys[i] : i \in 1..Len(config.keys)}

-----------------------------------------------------------------------------
(* States of the system the engine inspects.                                *)

SZ(data) == [type |-> "REG_SZ", data |-> data]
DWORD == [type |-> "REG_DWORD", data |-> <<>>]
NoVals == [n \in {} |-> SZ(<<>>)]
Key(vals) == [denied |-> FALSE, vals |-> vals]
DeniedKey == [denied |-> TRUE, vals |-> NoVals]

\* the Uninstall keys themselves
Frag_Base == (<<"HKLM", "Uninstall">> :> Key(NoVals))
\* Uninstall\A: the uninstall entry of App 1, version 1.0, installed from directory D1
Frag_AppU ==
    (<<"HKLM", "Uninstall", "A">> :>
        Key(V_DisplayName :> SZ(<<"A","p","p"," ","1">>)
            @@ V_UninstallString :> SZ(<<"u","n","a","p","p",".","e","x","e">>)
            @@ V_DisplayVersion :> SZ(<<"1",".","0">>)
            @@ V_InstallLocation :> SZ(<<"D1">>)))
\* Uninstall\C: the uninstall entry of Apple, version 3.0
Frag_AppleU ==
    (<<"HKLM", "Uninstall", "C">> :>
        Key(V_DisplayName :> SZ(<<"A","p","p","l","e">>)
            @@ V_UninstallString :> SZ(<<"u","n","a","p","p","l","e",".","e","x","e">>)
            @@ V_DisplayVersion :> SZ(<<"3",".","0">>)))
\* Uninstall\B: the uninstall entry of the Tool package, its version not a string
Frag_ToolU ==
    (<<"HKLM", "Uninstall", "B">> :>
        Key(V_DisplayName :> SZ(<<"T","o","o","l">>)
            @@ V_UninstallString :> SZ(<<"M","s","i","E","x","e","c",".","e","x","e"," ","/","X","{G1}">>)
            @@ V_DisplayVersion :> DWORD))
\* SOFTWARE\Vendor\App exists
Frag_AppV == (<<"HKLM", "Vendor", "App">> :> Key(NoVals))
\* SOFTWARE\Vendor\App exists and cannot be opened
Frag_AppDenied == (<<"HKLM", "Vendor", "App">> :> DeniedKey)
\* SOFTWARE\Vendor\Tool with Version " 2.0 "
Frag_ToolV == (<<"HKLM", "Vendor", "Tool">> :> Key(V_Version :> SZ(<<" ","2",".","0"," ">>)))
\* SOFTWARE\Vendor\Tool2 with an empty Version
Frag_Tool2 == (<<"HKLM", "Vendor", "Tool2">> :> Key(V_Version :> SZ(<<>>)))

RECURSIVE Merge(_)
Merge(frags) ==
    IF frags = {} THEN Frag_Base
    ELSE LET f == CHOOSE x \in frags : TRUE IN f @@ Merge(frags \ {f})

\* the registries built from a set of fragments
RegistriesOf(frags) ==
    {Merge(S) : S \in {T \in SUBSET frags : ~({Frag_AppV, Frag_AppDenied} \subseteq T)}}

AllFrags == {Frag_AppU, Frag_AppleU, Frag_ToolU, Frag_AppV, Frag_AppDenied, Frag_ToolV, Frag_Tool2}

ProductCodes == {<<"{G1}">>, <<"{G2}">>}

-----------------------------------------------------------------------------
(* ProgramStatus, FoundInstallerInfo and the record of the last call.       *)

NoProps == [n \in {} |-> <<>>]

\* "found_installer: Optional[FoundInstallerInfo] = None"
NoInfo == [path |-> None, file_properties |-> NoProps, installer_type |-> ".unknown",
           size_mb |-> 0]

\* ProgramStatus(key, display_name, cfg): is_installed is "None" (unchecked),
\* "True" or "False"
ProgramStatus ==
    [found_installer |-> NoInfo, is_installed |-> "None",
     last_installed_version |-> None, install_error |-> None]

\* ProgramInstaller._initialize_program_status
_initialize_program_status(cat) ==
    [k \in {cat.keys[i] : i \in 1..Len(cat.keys)} |-> ProgramStatus]

NoLog == [k \in {} |-> <<>>]

\* what the last call was and did: its arguments, had_entry (the ledger had an
\* entry for its key when it began), cmd (the command line it ran), steps (the
\* calls it made, in order), check (the post-action check it made) and its
\* result
NoCall ==
    [op |-> "init", key |-> "", keys |-> <<>>, rules |-> <<>>, found |-> FALSE,
     version |-> None, consulted |-> 0, steps |-> <<>>, result |-> "None",
     files |-> <<>>, matched_keys |-> <<>>, mode |-> "", cmd |-> <<>>,
     ran_ok |-> FALSE, check |-> "none", is_really_installed |-> FALSE,
     had_entry |-> FALSE, repeat |-> FALSE, settings |-> <<>>, score |-> 0]

-----------------------------------------------------------------------------
(* ProgramInstaller.check_installation_status                               *)

\* mutant: the version is stored only if the status object was already marked
\* installed when the check began
CheckOneStatus_StaleFlag(status, cfg, reg, products) ==
    LET r == check_registry(reg, cfg.check_method.keys)
        is_installed == IF cfg.check_method.type = "registry" THEN r.found
                        ELSE is_msi_product_installed(products, cfg.check_method.product_code)
    IN [status EXCEPT
          !.is_installed = IF is_installed THEN "True" ELSE "False",
          !.last_installed_version =
              IF is_installed /\ status.is_installed = "True" /\ cfg.check_method.type = "registry"
              THEN r.version ELSE None]

\* the body of "for key in keys_to_check" for one key of program_status: the
\* status object after the check
CheckOneStatus(status, cfg, reg, products) ==
    LET check_cfg == cfg.check_method
        res == IF check_cfg.type = "registry"
               THEN LET r == check_registry(reg, check_cfg.keys)
                    IN [is_installed |-> r.found, found_version |-> r.version]
               ELSE IF check_cfg.type = "msi_product_code"
               THEN IF Truthy(check_cfg.product_code)
                    THEN [is_installed |->
                              is_msi_product_installed(products, check_cfg.product_code),
                          found_version |-> None]
                    ELSE [is_installed |-> FALSE, found_version |-> None]
               ELSE [is_installed |-> FALSE, found_version |-> None]
    IN [status EXCEPT
          !.is_installed = IF res.is_installed THEN "True" ELSE "False",
          !.last_installed_version =
              IF res.is_installed THEN res.found_version ELSE None]

\* the for loop from position i on
RECURSIVE CheckStatusFrom(_, _, _, _, _, _)
CheckStatusFrom(statuses, cat, reg, products, keys_to_check, i) ==
    IF i > Len(keys_to_check) THEN statuses
    ELSE LET key == keys_to_check[i]
             next == IF key \notin DOMAIN statuses THEN statuses
                     ELSE [statuses EXCEPT
                             ![key] = CheckOneStatus(statuses[key], cat.cfg[key],
                                                     reg, products)]
         IN CheckStatusFrom(next, cat, reg, products, keys_to_check, i + 1)

\* check_installation_status(program_keys)
check_installation_status(program_keys) ==
    /\ program_status' =
           CheckStatusFrom(program_status, config, registry, msi_products, program_keys, 1)
    /\ last' = [NoCall EXCEPT !.op = "check_installation_status", !.keys = program_keys,
                                !.repeat = (last.op = "check_installation_status"
                                            /\ last.keys = program_keys)]
    /\ UNCHANGED <<outside, config, registry, msi_products, search_path, unidentified_installers,
                   installation_log, log_file, disk_log>>

\* a direct call of WindowsUtils.check_registry(check_config)
CheckRegistryCall(check_config) ==
    /\ LET r == check_registry(registry, check_config)
       IN last' = [NoCall EXCEPT !.op = "check_registry", !.rules = check_config,
                                  !.found = r.found, !.version = r.version,
                                  !.consulted = r.consulted,
                                  !.repeat = (last.op = "check_registry"
                                              /\ last.rules = check_config)]
    /\ UNCHANGED <<outside, config, registry, msi_products, search_path, program_status,
                   unidentified_installers, installation_log, log_file, disk_log>>

\* something outside the engine changes the registry or the installed products
EnvChange(reg, products) ==
    /\ <<reg, products>> # <<registry, msi_products>>
    /\ registry' = reg
    /\ msi_products' = products
    /\ last' = [NoCall EXCEPT !.op = "env"]
    /\ UNCHANGED <<outside, config, search_path, program_status, unidentified_installers,
                   installation_log, log_file, disk_log>>

-----------------------------------------------------------------------------
(* check_registry as a function: the initial state draws a registry and a   *)
(* rule list of at most MaxRules rules, the one action evaluates it.        *)

MaxRules == 3

RulePool == {R_EnumApp, R_ExistApp, R_ExistTool, R_ReadTool, R_NoPath, R_EnumTool}

RECURSIVE SeqsUpTo(_, _)
SeqsUpTo(S, n) ==
    IF n = 0 THEN {<<>>}
    ELSE LET shorter == SeqsUpTo(S, n - 1)
         IN shorter \cup {Append(s, x) : s \in {t \in shorter : Len(t) = n - 1}, x \in S}

RuleLists == SeqsUpTo(RulePool, MaxRules)

InitRegistry ==
    /\ OutsideIdle
    /\ config = Catalog3
    /\ registry \in RegistriesOf(AllFrags)
    /\ msi_products = {}
    /\ search_path = None
    /\ program_status = _initialize_program_status(Catalog3)
    /\ unidentified_installers = <<>>
    /\ installation_log = NoLog
    /\ log_file = TRUE
    /\ disk_log = NoLog
    /\ \E check_config \in RuleLists :
           last = [NoCall EXCEPT !.op = "input", !.rules = check_config]

NextRegistry == last.op = "input" /\ CheckRegistryCall(last.rules)

SpecRegistry == InitRegistry /\ [][NextRegistry]_vars

-----------------------------------------------------------------------------
(* The Inspector over time: status checks and direct rule evaluations while *)
(* programs come and go outside the engine.                                 *)

InspectFrags == {Frag_AppU, Frag_AppleU, Frag_AppV, Frag_ToolV}

\* the fragments of a set that a registry holds
FragsIn(reg, frags) ==
    {f \in frags : \A k \in DOMAIN f : k \in DOMAIN reg /\ reg[k] = f[k]}

\* a program's registry footprint appears or disappears
EnvToggleFrag(frags, f) ==
    EnvChange(Merge((FragsIn(registry, frags) \ {f})
                     \cup (IF f \in FragsIn(registry, frags) THEN {} ELSE {f})),
              msi_products)

\* a product appears in or disappears from the Windows Installer database
EnvToggleProduct(code) ==
    EnvChange(registry,
              IF code \in msi_products THEN msi_products \ {code}
              ELSE msi_products \cup {code})

\* the key lists a status check is asked for; "ghost" is no catalog key
StatusKeyLists == {<<"app", "tool", "doc">>, <<"tool">>, <<"doc", "ghost", "app">>}

InitInspect ==
    /\ OutsideIdle
    /\ config = Catalog3
    /\ registry \in RegistriesOf(InspectFrags)
    /\ msi_products \in SUBSET {<<"{G2}">>}
    /\ search_path = None
    /\ program_status = _initialize_program_status(Catalog3)
    /\ unidentified_installers = <<>>
    /\ installation_log = NoLog
    /\ log_file = TRUE
    /\ disk_log = NoLog
    /\ last = NoCall

NextInspect ==
    \/ \E key \in ConfigKeys : CheckRegistryCall(config.cfg[key].check_method.keys)
    \/ \E program_keys \in StatusKeyLists : check_installation_status(program_keys)
    \/ \E f \in InspectFrags : EnvToggleFrag(InspectFrags, f)
    \/ EnvToggleProduct(<<"{G2}">>)

SpecInspect == InitInspect /\ [][NextInspect]_vars

-----------------------------------------------------------------------------
(* Properties of the Inspector.                                             *)

\* what it means for one rule to be satisfied by a registry, and the version
\* it yields, stated without the loop of check_registry
C10_Children(reg, rule) ==
    LET k == RegKey(BaseHive(rule), rule.path)
    IN {i \in 1..Len(SubkeyOrder) :
          /\ KeyExists(reg, k \o <<SubkeyOrder[i]>>)
          /\ LET v == _reg_read_string(reg, k \o <<SubkeyOrder[i]>>, rule.match_value)
             IN Truthy(v) /\ ReMatch(rule.match_pattern, v)}

C10_Satisfied(reg, rule) ==
    LET k == RegKey(BaseHive(rule), rule.path)
    IN /\ Truthy(rule.path)
       /\ IF rule.check_existence THEN OpenKey(reg, k) = "ok"
          ELSE IF Truthy(rule.match_value) /\ Truthy(rule.match_pattern)
          THEN OpenKey(reg, k) = "ok" /\ C10_Children(reg, rule) # {}
          ELSE IF Truthy(rule.get_value)
          THEN _reg_read_string(reg, k, rule.get_value) # None
          ELSE FALSE

C10_Version(reg, rule) ==
    LET k == RegKey(BaseHive(rule), rule.path)
        direct == _reg_read_string(reg, k, rule.get_value)
        versioned == {i \in C10_Children(reg, rule) :
                        Truthy(_reg_read_string(reg, k \o <<SubkeyOrder[i]>>, rule.get_value))}
        first == CHOOSE i \in versioned : \A j \in versioned : i <= j
    IN IF rule.check_existence THEN (IF Truthy(direct) THEN direct ELSE None)
       ELSE IF Truthy(rule.match_value) /\ Truthy(rule.match_pattern)
       THEN (IF versioned = {} THEN None
             ELSE _reg_read_string(reg, k \o <<SubkeyOrder[first]>>, rule.get_value))
       ELSE direct

\* C10: check_registry evaluates the rules in declaration order and stops at
\* the first satisfied rule: it returns (True, v) with v the version that rule
\* yields (None if it yields none) and looks at no later rule; a rule whose
\* path or value is missing only fails; the result is (False, None) exactly
\* when no rule is satisfied.
C10_FirstSatisfiedRuleDecides ==
    last.op = "check_registry" =>
        LET sat == {i \in 1..Len(last.rules) : C10_Satisfied(registry, last.rules[i])}
            first == CHOOSE i \in sat : \A j \in sat : i <= j
        IN IF sat = {}
           THEN ~last.found /\ last.version = None /\ last.consulted = Len(last.rules)
           ELSE /\ last.found
                /\ last.version = C10_Version(registry, last.rules[first])
                /\ last.consulted = first

\* a call whose first rule fails on a missing path, whose second rule is
\* satisfied and whose third rule is satisfied too, with another version
C10_Witness ==
    /\ last.op = "check_registry"
    /\ Len(last.rules) = 3
    /\ ~C10_Satisfied(registry, last.rules[1])
    /\ Truthy(last.rules[1].path)
    /\ ~KeyExists(registry, RegKey("HKLM", last.rules[1].path))
    /\ last.found
    /\ last.consulted = 2
    /\ C10_Satisfied(registry, last.rules[3])
    /\ C10_Version(registry, last.rules[3]) # last.version

InstalledPair(status) == <<status.is_installed, status.last_installed_version>>

\* C9: two consecutive Inspector evaluations against an unchanged store return
\* the same (installed, version) pairs: a status check repeated on the same
\* keys leaves every pair as the first check left it, and check_registry
\* repeated on the same rule list returns the same result.
C9_InspectorIdempotent ==
    [][/\ (/\ last'.op = "check_installation_status"
           /\ last'.repeat
           /\ registry' = registry /\ msi_products' = msi_products)
          => \A k \in DOMAIN program_status :
                 InstalledPair(program_status'[k]) = InstalledPair(program_status[k])
       /\ (/\ last'.op = "check_registry"
           /\ last'.repeat
           /\ registry' = registry /\ msi_products' = msi_products)
          => /\ last'.found = last.found
             /\ last'.version = last.version]_vars

\* a status check repeated on the same keys with a program found installed
\* with a version
C9_Witness ==
    /\ last.op = "check_installation_status"
    /\ last.repeat
    /\ program_status["app"].is_installed = "True"
    /\ program_status["app"].last_installed_version # None
    /\ program_status["tool"].is_installed = "False"

-----------------------------------------------------------------------------
(* Discovered artifacts (FoundInstallerInfo).  path is the text of the      *)
(* file's path; size_mb is what path.stat() reports when the artifact is    *)
(* scored, in megabytes, -1 when stat() fails.                              *)

RECURSIVE LastSep(_, _)
LastSep(path, i) ==
    IF i = 0 THEN 0 ELSE IF path[i] = "\\" THEN i ELSE LastSep(path, i - 1)

\* Path(path).name and str(Path(path).parent)
PathName(path) == SubSeq(path, LastSep(path, Len(path)) + 1, Len(path))
PathParent(path) == SubSeq(path, 1, LastSep(path, Len(path)) - 1)

\* props.get(name, '')
PropGet(props, name) == IF name \in DOMAIN props THEN props[name] ELSE <<>>

F_AppSetup ==
    [path |-> <<"D1","\\","A","p","p","S","e","t","u","p",".","e","x","e">>,
     file_properties |-> ("ProductName" :> <<"A","p","p"," ","I","n","s","t","a","l","l","e","r">>
                          @@ "FileDescription" :> <<"A","p","p"," ","S","e","t","u","p">>
                          @@ "CompanyName" :> <<"A","c","m","e">>),
     installer_type |-> ".exe", size_mb |-> 50]
F_Setup ==
    [path |-> <<"D1","\\","S","e","t","u","p",".","e","x","e">>,
     file_properties |-> ("ProductName" :> <<"T","o","o","l"," ","S","u","i","t","e">>
                          @@ "OriginalFilename" :> <<"t","o","o","l","s","e","t","u","p",".","e","x","e">>),
     installer_type |-> ".exe", size_mb |-> 200]
F_ToolMsi ==
    [path |-> <<"D1","\\","T","o","o","l","-","1",".","m","s","i">>,
     file_properties |-> ("ProductName" :> <<"T","o","o","l">>
                          @@ "MSI_ProductCode" :> <<"{G1}">>
                          @@ "ProductVersion" :> <<"2",".","0">>),
     installer_type |-> ".msi", size_mb |-> 50]
F_ToolMsi2 ==
    [path |-> <<"D2","\\","t","o","o","l","-","2",".","m","s","i">>,
     file_properties |-> ("ProductName" :> <<"T","o","o","l">>
                          @@ "MSI_ProductCode" :> None
                          @@ "ProductVersion" :> <<>>),
     installer_type |-> ".msi", size_mb |-> 50]
F_SetupX ==
    [path |-> <<"D2","\\","s","e","t","u","p","_","x",".","e","x","e">>,
     file_properties |-> ("ProductName" :> <<"W","i","d","g","e","t">>
                          @@ "FileDescription" :> <<"W","i","d","g","e","t">>
                          @@ "CompanyName" :> <<>>),
     installer_type |-> ".exe", size_mb |-> 20]
F_Wizard ==
    [path |-> <<"D2","\\","a","w","i","z","a","r","d",".","e","x","e">>,
     file_properties |-> ("ProductName" :> <<"W","i","d","g","e","t">>),
     installer_type |-> ".exe", size_mb |-> -1]
F_Viewer ==
    [path |-> <<"D2","\\","v","i","e","w","e","r",".","e","x","e">>,
     file_properties |-> ("ProductName" :> <<"V","i","e","w","e","r"," ","P","r","o">>
                          @@ "FileDescription" :> <<"V","i","e","w","e","r">>
                          @@ "CompanyName" :> <<>>),
     installer_type |-> ".exe", size_mb |-> 6]

-----------------------------------------------------------------------------
(* ProgramInstaller._score_potential_installer, in hundredths.              *)

\* DETECTION_SETTINGS
DETECTION_SETTINGS ==
    [exclude_uninstaller_hints |->
        << <<"u","n","i","n","s","t","a","l","l">>, <<"r","e","m","o","v","e">>,
           <<"u","n","i","n","s","t">>, <<"c","l","e","a","n","u","p">>, <<"f","i","x">>,
           <<"p","a","t","c","h">>, <<"u","p","d","a","t","e">> >>,
     min_file_size_mb |-> 5]

\* any(k in text for k in words)
AnyIn(words, text) == \E i \in 1..Len(words) : Contains(words[i], text)

HEURISTIC_SCORE_THRESHOLD == 50

MsiPatchWords == << <<"p","a","t","c","h">>, <<"u","p","d","a","t","e">>,
                    <<"h","o","t","f","i","x">>,
                    <<"s","e","c","u","r","i","t","y"," ","u","p","d","a","t","e">> >>
MsiRuntimeWords == << <<"r","u","n","t","i","m","e">>, <<"r","e","d","i","s","t">>,
                      <<"m","e","r","g","e"," ","m","o","d","u","l","e">>,
                      <<"d","r","i","v","e","r">> >>
MsiGenericWords == << <<"i","n","s","t","a","l","l">>, <<"s","e","t","u","p">>,
                      <<"p","a","c","k","a","g","e">> >>
ExeGenericWords == MsiGenericWords \o << <<"w","i","z","a","r","d">> >>
inst_kw == << <<"s","e","t","u","p">>, <<"i","n","s","t","a","l","l">>,
              <<"i","n","s","t","a","l","l","e","r">>, <<"w","i","z","a","r","d">>,
              <<"w","e","b">>, <<"o","n","l","i","n","e">> >>

\* the rewards and penalties the code adds to the score, in the order it adds them
ScoreSteps(info, settings) ==
    LET filename_lower == Lower(PathName(info.path))
        props == info.file_properties
        uninst_kw == settings.exclude_uninstaller_hints
        prod_name == Lower(PropGet(props, "ProductName"))
        file_desc == Lower(PropGet(props, "FileDescription"))
        comp_name == Lower(PropGet(props, "CompanyName"))
        size_mb == info.size_mb
    IN IF info.installer_type = ".msi"
       THEN <<30, 30,
              IF AnyIn(MsiPatchWords, prod_name) THEN -40 ELSE 0,
              IF AnyIn(MsiRuntimeWords, prod_name) THEN -50 ELSE 0,
              IF prod_name # <<>> /\ ~AnyIn(MsiGenericWords, prod_name) THEN 10 ELSE 0>>
       ELSE IF info.installer_type = ".exe"
       THEN <<30,
              IF AnyIn(inst_kw, filename_lower) THEN 25 ELSE 0,
              IF AnyIn(uninst_kw, filename_lower) THEN -35 ELSE 0,
              IF size_mb < 0 THEN -10
              ELSE IF size_mb > 100 THEN 15
              ELSE IF size_mb > 10 THEN 10
              ELSE IF size_mb < settings.min_file_size_mb THEN -15 ELSE 0>>
            \o (IF props = NoProps THEN <<>>
                ELSE <<IF prod_name # <<>> /\ ~AnyIn(ExeGenericWords, prod_name) THEN 15 ELSE 0,
                       IF file_desc # <<>> /\ ~AnyIn(ExeGenericWords, file_desc) THEN 10 ELSE 0,
                       IF \E i \in 1..Len(uninst_kw) :
                              Contains(uninst_kw[i], prod_name) \/ Contains(uninst_kw[i], file_desc)
                       THEN -30 ELSE 0,
                       IF comp_name = <<"m","i","c","r","o","s","o","f","t"," ","c","o","r","p","o","r","a","t","i","o","n">>
                          \/ comp_name = <<>>
                       THEN -5 ELSE 0>>)
       ELSE <<30>>

RECURSIVE SumSeq(_)
SumSeq(s) == IF s = <<>> THEN 0 ELSE Head(s) + SumSeq(Tail(s))

Max(a, b) == IF a >= b THEN a ELSE b
Min(a, b) == IF a <= b THEN a ELSE b

\* mutant: the sum of rewards and penalties is capped at 1.0, not floored at 0.0
_score_potential_installer_NoFloor(info, settings) ==
    Min(SumSeq(ScoreSteps(info, settings)), 100)

\* _score_potential_installer(info): max(0.0, min(score, 1.0)), in hundredths
_score_potential_installer(info, settings) ==
    Max(0, Min(SumSeq(ScoreSteps(info, settings)), 100))

\* The code adds the terms as binary doubles.  Two sums that are 0.50 in
\* decimal come out as 0.49999999999999994: 0.3 + 0.15 + 0.10 - 0.05, with the
\* 0.15 from the size and with the 0.15 from the product name.
DoubleSumBelow(steps) ==
    LET nonzero == SelectSeq(steps, LAMBDA x : x # 0)
    IN nonzero = <<30, 15, 10, -5>>

\* score >= self.HEURISTIC_SCORE_THRESHOLD, as the comparison of doubles decides it
ScoreReachesThreshold(info, settings) ==
    /\ _score_potential_installer(info, settings) >= HEURISTIC_SCORE_THRESHOLD
    /\ ~DoubleSumBelow(ScoreSteps(info, settings))

-----------------------------------------------------------------------------
(* ProgramInstaller.set_search_path and scan_for_installers.                *)

\* the directories that exist; any other path fails Path.resolve(strict=True)
\* or is no directory
Directories == {<<"R1">>, <<"R2">>}

\* set_search_path(path)
set_search_path(path) ==
    /\ IF path \in Directories
       THEN /\ search_path' = path
            /\ program_status' =
                   [k \in DOMAIN program_status |->
                       [program_status[k] EXCEPT !.found_installer = NoInfo]]
            /\ unidentified_installers' = <<>>
            /\ last' = [NoCall EXCEPT !.op = "set_search_path", !.result = "True"]
       ELSE /\ search_path' = None
            /\ UNCHANGED <<program_status, unidentified_installers>>
            /\ last' = [NoCall EXCEPT !.op = "set_search_path", !.result = "False"]
    /\ UNCHANGED <<outside, config, registry, msi_products, installation_log, log_file, disk_log>>

\* the signal score of one artifact against one definition's identity criteria
MatchScore(info, identity) ==
    LET props == info.file_properties
        filename_lower == Lower(PathName(info.path))
        prod_name == Lower(PropGet(props, "ProductName"))
        desc == Lower(PropGet(props, "FileDescription"))
        orig_name == Lower(PropGet(props, "OriginalFilename"))
        exp_names == identity.expected_product_names
        exp_descs == identity.expected_descriptions
        patterns == identity.installer_patterns
        patt_match == \E i \in 1..Len(patterns) : FnMatch(filename_lower, Lower(patterns[i]))
        desc_match == desc # <<>> /\ \E i \in 1..Len(exp_descs) : Contains(Lower(exp_descs[i]), desc)
        name_match == prod_name # <<>>
                      /\ \E i \in 1..Len(exp_names) : Contains(Lower(exp_names[i]), prod_name)
        orig_name_match == orig_name # <<>>
                           /\ \E i \in 1..Len(patterns) : FnMatch(orig_name, Lower(patterns[i]))
    IN (IF patt_match \/ orig_name_match THEN 1 ELSE 0)
       + (IF desc_match THEN 2 ELSE 0)
       + (IF name_match THEN 3 ELSE 0)

\* the artifacts and identity criteria of this model, and the values the
\* operators above take on them, evaluated once
Artifacts == {F_AppSetup, F_Setup, F_ToolMsi, F_ToolMsi2, F_SetupX, F_Wizard, F_Viewer}
Identities == {Cfg_app.identity, Cfg_tool.identity, Cfg_doc.identity}
MatchScoreOf == [info \in Artifacts, identity \in Identities |-> MatchScore(info, identity)]
ReachesThreshold == [info \in Artifacts |-> ScoreReachesThreshold(info, DETECTION_SETTINGS)]
NameLower == [info \in Artifacts |-> Lower(PathName(info.path))]

\* mutant: a later artifact with the same score replaces the best match
RECURSIVE BestMatchFrom_LastWins(_, _, _, _, _)
BestMatchFrom_LastWins(potential_files, i, identity, processed_paths, best) ==
    IF i > Len(potential_files) THEN best
    ELSE LET info == potential_files[i]
             current_score == MatchScoreOf[info, identity]
             next == IF info.path \in processed_paths \/ info.file_properties = NoProps
                     THEN best
                     ELSE IF current_score > 0 /\ current_score >= best.best_score
                     THEN [best_match_for_key |-> info, best_score |-> current_score]
                     ELSE best
         IN BestMatchFrom_LastWins(potential_files, i + 1, identity, processed_paths, next)

\* mutant: an artifact already assigned to a definition is considered again
RECURSIVE BestMatchFrom_NoSkip(_, _, _, _, _)
BestMatchFrom_NoSkip(potential_files, i, identity, processed_paths, best) ==
    IF i > Len(potential_files) THEN best
    ELSE LET info == potential_files[i]
             current_score == MatchScoreOf[info, identity]
             next == IF current_score > 0 /\ current_score > best.best_score
                     THEN [best_match_for_key |-> info, best_score |-> current_score]
                     ELSE best
         IN BestMatchFrom_NoSkip(potential_files, i + 1, identity, processed_paths, next)

\* "for info in potential_files" from position i on, for one definition
RECURSIVE BestMatchFrom(_, _, _, _, _)
BestMatchFrom(potential_files, i, identity, processed_paths, best) ==
    IF i > Len(potential_files) THEN best
    ELSE LET info == potential_files[i]
             current_score == MatchScoreOf[info, identity]
             next == IF info.path \in processed_paths \/ info.file_properties = NoProps
                     THEN best
                     ELSE IF current_score > 0 /\ current_score > best.best_score
                     THEN [best_match_for_key |-> info, best_score |-> current_score]
                     ELSE best
         IN BestMatchFrom(potential_files, i + 1, identity, processed_paths, next)

\* "for key, prog_config in self.config.items()" from position i on
RECURSIVE MatchFrom(_, _, _, _)
MatchFrom(cat, potential_files, i, acc) ==
    IF i > Len(cat.keys) THEN acc
    ELSE LET key == cat.keys[i]
             best == BestMatchFrom(potential_files, 1, cat.cfg[key].identity,
                                   acc.processed_paths,
                                   [best_match_for_key |-> NoInfo, best_score |-> -1])
             next == IF best.best_match_for_key # NoInfo
                     THEN [statuses |-> [acc.statuses EXCEPT
                                            ![key].found_installer = best.best_match_for_key],
                           matched_keys |-> Append(acc.matched_keys, key),
                           processed_paths |-> acc.processed_paths
                                               \cup {best.best_match_for_key.path}]
                     ELSE acc
         IN MatchFrom(cat, potential_files, i + 1, next)

\* list.sort(key=lambda i: i.path.name.lower()): a stable sort
RECURSIVE InsertByName(_, _)
InsertByName(sorted, info) ==
    IF sorted = <<>> THEN <<info>>
    ELSE IF StrLess(NameLower[info], NameLower[Head(sorted)])
         THEN <<info>> \o sorted
         ELSE <<Head(sorted)>> \o InsertByName(Tail(sorted), info)

RECURSIVE SortByName(_)
SortByName(infos) ==
    IF infos = <<>> THEN <<>>
    ELSE InsertByName(SortByName(SubSeq(infos, 1, Len(infos) - 1)), infos[Len(infos)])

\* mutant: the heuristic is applied to every potential file, matched or not
scan_for_installers_ScoreAll(potential_files) ==
    /\ IF ~Truthy(search_path)
       THEN /\ UNCHANGED <<program_status, unidentified_installers>>
            /\ last' = [NoCall EXCEPT !.op = "scan_for_installers", !.result = "no path"]
       ELSE LET reset == [k \in DOMAIN program_status |->
                             [program_status[k] EXCEPT !.found_installer = NoInfo]]
                m == MatchFrom(config, potential_files, 1,
                               [statuses |-> reset, matched_keys |-> <<>>,
                                processed_paths |-> {}])
                probable == SelectSeq(potential_files,
                                LAMBDA info : ReachesThreshold[info])
            IN IF potential_files = <<>>
               THEN /\ program_status' = reset
                    /\ unidentified_installers' = <<>>
                    /\ last' = [NoCall EXCEPT !.op = "scan_for_installers",
                                               !.result = "none found"]
               ELSE /\ program_status' = m.statuses
                    /\ unidentified_installers' = SortByName(probable)
                    /\ last' = [NoCall EXCEPT !.op = "scan_for_installers",
                                               !.files = potential_files,
                                               !.matched_keys = m.matched_keys,
                                               !.result = "scanned"]
    /\ UNCHANGED <<outside, config, registry, msi_products, search_path, installation_log,
                   log_file, disk_log>>

\* scan_for_installers(), potential_files being what _find_potential_installers
\* returns for the search path: artifacts with properties, no path twice
scan_for_installers(potential_files) ==
    /\ IF ~Truthy(search_path)
       THEN /\ UNCHANGED <<program_status, unidentified_installers>>
            /\ last' = [NoCall EXCEPT !.op = "scan_for_installers", !.result = "no path"]
       ELSE LET reset == [k \in DOMAIN program_status |->
                             [program_status[k] EXCEPT !.found_installer = NoInfo]]
                m == MatchFrom(config, potential_files, 1,
                               [statuses |-> reset, matched_keys |-> <<>>,
                                processed_paths |-> {}])
                remaining_files == SelectSeq(potential_files,
                                       LAMBDA info : info.path \notin m.processed_paths)
                probable == SelectSeq(remaining_files,
                                LAMBDA info : ReachesThreshold[info])
            IN IF potential_files = <<>>
               THEN /\ program_status' = reset
                    /\ unidentified_installers' = <<>>
                    /\ last' = [NoCall EXCEPT !.op = "scan_for_installers",
                                               !.result = "none found"]
               ELSE /\ program_status' = m.statuses
                    /\ unidentified_installers' = SortByName(probable)
                    /\ last' = [NoCall EXCEPT !.op = "scan_for_installers",
                                               !.files = potential_files,
                                               !.matched_keys = m.matched_keys,
                                               !.result = "scanned"]
    /\ UNCHANGED <<outside, config, registry, msi_products, search_path, installation_log,
                   log_file, disk_log>>

-----------------------------------------------------------------------------
(* The Matcher: any catalog of Catalogs, any list of at most MaxFiles       *)
(* artifacts of the pool with no path twice.                                *)

MaxFiles == 2

ArtifactPool == {F_AppSetup, F_Setup, F_ToolMsi, F_SetupX, F_Wizard, F_Viewer}

NoPathTwice(files) == \A i, j \in 1..Len(files) : files[i].path = files[j].path => i = j

FileLists == {files \in SeqsUpTo(ArtifactPool, MaxFiles) : NoPathTwice(files)}

InitScan ==
    /\ OutsideIdle
    /\ config \in {Catalog2, Catalog3, Catalog_tool}
    /\ registry = Frag_Base
    /\ msi_products = {}
    /\ search_path = None
    /\ program_status = _initialize_program_status(config)
    /\ unidentified_installers = <<>>
    /\ installation_log = NoLog
    /\ log_file = TRUE
    /\ disk_log = NoLog
    /\ last = NoCall

NextScan ==
    \/ \E path \in Directories \cup {<<"R1", "\\", "f", ".", "t", "x", "t">>} :
           set_search_path(path)
    \/ \E potential_files \in FileLists : scan_for_installers(potential_files)

SpecScan == InitScan /\ [][NextScan]_vars

\* C1: after any completed scan no artifact path is the found_installer of two
\* catalog keys: an artifact claimed by an earlier definition is never
\* considered for a later one.
C1_OneDefinitionPerArtifact ==
    \A k1, k2 \in DOMAIN program_status :
        (/\ program_status[k1].found_installer # NoInfo
         /\ program_status[k1].found_installer.path = program_status[k2].found_installer.path)
        => k1 = k2

\* a scan in which a later definition scores an artifact that an earlier
\* definition has claimed, and is matched to another artifact
C1_Witness ==
    /\ last.op = "scan_for_installers"
    /\ last.result = "scanned"
    /\ Len(last.matched_keys) >= 2
    /\ \E i, j \in 1..Len(config.keys) :
          /\ i < j
          /\ program_status[config.keys[i]].found_installer # NoInfo
          /\ program_status[config.keys[j]].found_installer # NoInfo
          /\ MatchScoreOf[program_status[config.keys[i]].found_installer,
                          config.cfg[config.keys[j]].identity]
             > MatchScoreOf[program_status[config.keys[j]].found_installer,
                            config.cfg[config.keys[j]].identity]

-----------------------------------------------------------------------------
(* More of str, for the command lines.                                      *)

\* s.replace(old, new): every occurrence, left to right, not overlapping
RECURSIVE Replace(_, _, _)
Replace(s, old, new) ==
    IF s = <<>> \/ old = <<>> THEN s
    ELSE IF StartsWith(s, old)
         THEN new \o Replace(SubSeq(s, Len(old) + 1, Len(s)), old, new)
         ELSE <<Head(s)>> \o Replace(Tail(s), old, new)

\* the atoms that stand for a product code "{8-4-4-4-12 hex digits}"
GuidAtoms == {"{G1}", "{G2}"}

\* positions of s where r'\{([0-9A-F]{8}-...-[0-9A-F]{12})\}' matches
GuidPositions(s) == {i \in 1..Len(s) : s[i] \in GuidAtoms}

\* positions of s where r'(/x\{[0-9a-f-]+\})' matches, re.IGNORECASE
SlashXGuidPositions(s) ==
    {i \in 1..(Len(s) - 2) : s[i] = "/" /\ LowerChar(s[i + 1]) = "x" /\ s[i + 2] \in GuidAtoms}

SetMin(S) == CHOOSE x \in S : \A y \in S : x <= y

\* dict.get(name): None when the key is absent
DictGet(d, name) == IF name \in DOMAIN d THEN d[name] ELSE None

\* {k: v for k, v in d.items() if v is not None}
DropNone(d) == [k \in {n \in DOMAIN d : d[n] # None} |-> d[k]]

-----------------------------------------------------------------------------
(* ProgramInstaller._get_uninstall_info_from_registry                       *)

\* the cleanup of the UninstallString of the best match, its quotes removed
CleanUnquoted(unquoted) ==
    IF Contains(<<"m","s","i","e","x","e","c",".","e","x","e">>, Lower(unquoted)) /\ SlashXGuidPositions(unquoted) # {}
    THEN LET i == SetMin(SlashXGuidPositions(unquoted))
         IN Strip(SubSeq(unquoted, 1, i - 1)) \o <<" ">> \o SubSeq(unquoted, i, i + 2)
    ELSE Strip(unquoted)

CleanUninstallString(raw) ==
    CleanUnquoted(IF StartsWith(raw, <<"\"">>) /\ EndsWith(raw, <<"\"">>)
                  THEN Strip(SubSeq(raw, 2, Len(raw) - 1)) ELSE raw)

\* current_score of a subkey that has DisplayName and UninstallString
CandidateScore(dn_low, il_low, name_hint_low, inst_dir_hint) ==
    LET name_score == IF Contains(name_hint_low, dn_low) \/ Contains(dn_low, name_hint_low)
                      THEN 5 ELSE 0
        loc_score == IF il_low # <<>> /\ inst_dir_hint # <<>> /\ il_low = inst_dir_hint
                     THEN 3 ELSE 0
    IN name_score + loc_score + (IF name_score + loc_score >= 8 THEN 2 ELSE 0)

\* current_info and current_score for the values read from one subkey; score -1
\* when the subkey lacks DisplayName or UninstallString and is passed over
Candidate(display_name, uninstall_string, install_location, display_version,
          name_hint_low, inst_dir_hint) ==
    [info |-> ("display_name" :> display_name @@ "uninstall_string" :> uninstall_string
               @@ "install_location" :> install_location
               @@ "display_version" :> display_version),
     score |-> IF ~Truthy(display_name) \/ ~Truthy(uninstall_string) THEN -1
               ELSE CandidateScore(Lower(display_name),
                                   IF Truthy(install_location) THEN Lower(install_location)
                                   ELSE <<>>,
                                   name_hint_low, inst_dir_hint)]

UninstallCandidate(reg, sub, name_hint_low, inst_dir_hint) ==
    Candidate(_reg_read_string(reg, sub, V_DisplayName),
              _reg_read_string(reg, sub, V_UninstallString),
              _reg_read_string(reg, sub, V_InstallLocation),
              _reg_read_string(reg, sub, V_DisplayVersion),
              name_hint_low, inst_dir_hint)

\* "if current_score > best_score": the best match after candidate c
BetterMatch(best, c) ==
    IF c.score > best.best_score
    THEN [best_match_info |-> c.info, best_score |-> c.score]
    ELSE best

\* the while loop over the subkeys of one Uninstall path from position i on
RECURSIVE UninstallScanFrom(_, _, _, _, _, _, _)
UninstallScanFrom(reg, k, names, i, name_hint_low, inst_dir_hint, best) ==
    IF i > Len(names) THEN best
    ELSE UninstallScanFrom(reg, k, names, i + 1, name_hint_low, inst_dir_hint,
             BetterMatch(best, UninstallCandidate(reg, k \o <<names[i]>>,
                                                  name_hint_low, inst_dir_hint)))

\* "for key_path in uninst_key_paths" from position i on
RECURSIVE UninstallPathsFrom(_, _, _, _, _, _)
UninstallPathsFrom(reg, uninst_key_paths, i, name_hint_low, inst_dir_hint, best) ==
    IF i > Len(uninst_key_paths) THEN best
    ELSE UninstallPathsFrom(reg, uninst_key_paths, i + 1, name_hint_low, inst_dir_hint,
             IF OpenKey(reg, RegKey("HKLM", uninst_key_paths[i])) # "ok" THEN best
             ELSE UninstallScanFrom(reg, RegKey("HKLM", uninst_key_paths[i]),
                                    EnumKey(reg, RegKey("HKLM", uninst_key_paths[i])), 1,
                                    name_hint_low, inst_dir_hint, best))

\* "if best_score > 0: ... return best_match_info / else: return {}"
BestMatchInfo(best) ==
    IF best.best_score > 0
    THEN [best.best_match_info EXCEPT !["uninstall_string"] = CleanUninstallString(@)]
    ELSE NoProps

\* _get_uninstall_info_from_registry(program_name_hint, installer_path_hint):
\* the dict of the best match, {} when nothing scores
_get_uninstall_info_from_registry(reg, program_name_hint, installer_path_hint) ==
    BestMatchInfo(
        UninstallPathsFrom(reg, <<UninstallPath, WowUninstallPath>>, 1,
                           Lower(program_name_hint),
                           IF installer_path_hint # <<>>
                           THEN Lower(PathParent(installer_path_hint)) ELSE <<>>,
                           [best_match_info |-> NoProps, best_score |-> 0]))

-----------------------------------------------------------------------------
(* ProgramInstaller._add_silent_flags_to_command                            *)

\* 'msiexec' in cmd_lower and ('/x' in cmd_lower or '/uninstall' in cmd_lower)
IsMsiUninstall(cmd_lower) ==
    /\ Contains(<<"m","s","i","e","x","e","c">>, cmd_lower)
    /\ (Contains(<<"/","x">>, cmd_lower) \/ Contains(<<"/","u","n","i","n","s","t","a","l","l">>, cmd_lower))

SilentFlags == {<<" ","/","s">>, <<"/","s","i","l","e","n","t">>, <<"/","v","e","r","y","s","i","l","e","n","t">>, <<"/","q">>, <<"/","q","u","i","e","t">>,
                <<"-","s">>, <<"-","s","i","l","e","n","t">>, <<"-","q">>}

\* the flags added to the stripped command mod_cmd
AddSilentFlags(mod_cmd, cmd_lower) ==
    IF IsMsiUninstall(cmd_lower)
    THEN mod_cmd
         \o (IF ~Contains(<<"/","q","n">>, cmd_lower) /\ ~Contains(<<"/","q","u","i","e","t">>, cmd_lower)
             THEN <<" ","/","q","n">> ELSE <<>>)
         \o (IF ~Contains(<<"/","n","o","r","e","s","t","a","r","t">>, cmd_lower) THEN <<" ","/","n","o","r","e","s","t","a","r","t">> ELSE <<>>)
    ELSE IF ~(\E flag \in SilentFlags : Contains(flag, cmd_lower))
         THEN mod_cmd \o <<" ","/","S">>
         ELSE mod_cmd

_add_silent_flags_to_command(command) ==
    IF ~Truthy(command) THEN <<>> ELSE AddSilentFlags(Strip(command), Lower(command))

-----------------------------------------------------------------------------
(* WindowsUtils.run_command and the ledger.                                 *)

\* "success_codes = {0, 3010, 1641}"
success_codes == {0, 3010, 1641}

\* the ways a process ends: exit codes, and -1 for subprocess.TimeoutExpired
ReturnCodes == {0, 3010, 1, -1}

\* what the programs of the catalog leave in the registry and in the installer
\* database: what a process may create or remove
FootprintOf ==
    "app" :> [frags |-> {Frag_AppU}, codes |-> {}]
    @@ "tool" :> [frags |-> {Frag_ToolV}, codes |-> {<<"{G1}">>}]
    @@ "doc" :> [frags |-> {}, codes |-> {<<"{G2}">>}]
Footprints == UNION {FootprintOf[k].frags : k \in ConfigKeys}
PackageCodes == UNION {FootprintOf[k].codes : k \in ConfigKeys}

ToggleIn(S, x) == IF x \in S THEN S \ {x} ELSE S \cup {x}

\* the states the system can be in when a process has ended
SystemsAfter(reg, products) ==
    {[registry |-> reg, msi_products |-> products]}
    \cup {[registry |-> Merge(ToggleIn(FragsIn(reg, Footprints), f)),
           msi_products |-> products] : f \in Footprints}
    \cup {[registry |-> reg, msi_products |-> ToggleIn(products, c)] : c \in PackageCodes}

\* run_command(cmd, program_name, timeout): (ran_ok, return_code) and the
\* system the process leaves behind
run_command(reg, products) ==
    {[ran_ok |-> c \in success_codes, return_code |-> c,
      registry |-> sys.registry, msi_products |-> sys.msi_products]
     : c \in ReturnCodes, sys \in SystemsAfter(reg, products)}

\* _save_installation_log(): the ledger file after the call; save_ok is FALSE
\* when writing the temporary file or os.replace raises
_save_installation_log(log, disk, logfile, save_ok) ==
    IF ~logfile THEN disk
    ELSE IF save_ok THEN log
    ELSE disk

\* "if not uninst_info.get('uninstall_string'): ..." of _record_installation: an
\* .msi with a product code gets 'msiexec /x {code}'
WithMsiUninstallString(uninst_info, installer_info) ==
    IF ~Truthy(DictGet(uninst_info, "uninstall_string"))
       /\ installer_info.installer_type = ".msi"
       /\ Truthy(DictGet(installer_info.file_properties, "MSI_ProductCode"))
    THEN ("uninstall_string" :>
              (<<"m","s","i","e","x","e","c"," ","/","x"," ">> \o installer_info.file_properties["MSI_ProductCode"]))
         @@ uninst_info
    ELSE uninst_info

\* the log_entry dict of _record_installation (without its timestamp)
LogEntry(program_key, prog_name, installer_info, uninst_info) ==
    DropNone(
        "program_key" :> <<program_key>>
        @@ "name" :> prog_name
        @@ "installer_path" :> installer_info.path
        @@ "installer_type" :> <<installer_info.installer_type>>
        @@ "uninstall_string" :> DictGet(uninst_info, "uninstall_string")
        @@ "install_location" :> DictGet(uninst_info, "install_location")
        @@ "display_version" :>
               (IF installer_info.installer_type = ".msi"
                   /\ Truthy(DictGet(installer_info.file_properties, "ProductVersion"))
                THEN installer_info.file_properties["ProductVersion"]
                ELSE DictGet(uninst_info, "display_version"))
        @@ "installer_product_version" :>
               DictGet(installer_info.file_properties, "ProductVersion")
        @@ "installer_file_version" :> DictGet(installer_info.file_properties, "FileVersion")
        @@ (IF installer_info.installer_type = ".msi"
            THEN "product_code" :> DictGet(installer_info.file_properties, "MSI_ProductCode")
            ELSE NoProps))

\* "self.installation_log[program_key] = ...; self._save_installation_log()"
StoreEntry(new_log, disk, logfile, save_ok) ==
    [installation_log |-> new_log,
     disk_log |-> _save_installation_log(new_log, disk, logfile, save_ok),
     steps |-> <<"_record_installation", "_get_uninstall_info_from_registry",
                 "_save_installation_log">>]

\* _record_installation(program_key, installer_info): the ledger in memory and
\* on disk after the call, and the calls made
_record_installation(log, disk, logfile, reg, program_key, prog_name, installer_info, save_ok) ==
    IF ~logfile
    THEN [installation_log |-> log, disk_log |-> disk, steps |-> <<"_record_installation">>]
    ELSE StoreEntry(
             (program_key :>
                 LogEntry(program_key, prog_name, installer_info,
                          WithMsiUninstallString(
                              _get_uninstall_info_from_registry(reg, prog_name,
                                                                installer_info.path),
                              installer_info)))
             @@ log,
             disk, logfile, save_ok)

-----------------------------------------------------------------------------
(* The command lines of install_program and install_unidentified_program.   *)

Quoted(path_str) == <<"\"">> \o path_str \o <<"\"">>

\* cmd_template.format(installer_path=quoted_path)
Format(cmd_template, quoted_path) == Replace(cmd_template, <<"{installer_path}">>, quoted_path)

\* '/S' in cmd or '/SILENT' in cmd or '/VERYSILENT' in cmd
HasSilentSwitch(cmd) ==
    Contains(<<"/","S">>, cmd) \/ Contains(<<"/","S","I","L","E","N","T">>, cmd) \/ Contains(<<"/","V","E","R","Y","S","I","L","E","N","T">>, cmd)

\* final_cmd for the mode; wrapper_cmd is what the branch for an InstallShield
\* wrapper makes of the base command
FinalCmd(base_cmd, wrapper_cmd, quoted_path, installer_type, mode) ==
    IF mode = "manual" THEN quoted_path
    ELSE IF mode = "semi"
    THEN IF installer_type = ".msi"
         THEN <<"m","s","i","e","x","e","c"," ","/","i"," ">> \o quoted_path \o <<" ","/","p","a","s","s","i","v","e"," ","/","n","o","r","e","s","t","a","r","t">>
         ELSE IF installer_type = ".exe"
         THEN IF Contains(<<"/","s"," ","/","v","\"","/","q","n">>, Lower(base_cmd)) THEN wrapper_cmd
              ELSE IF HasSilentSwitch(base_cmd) THEN base_cmd
              ELSE quoted_path
         ELSE base_cmd
    ELSE base_cmd

\* run_cmd = f'start /wait "" {final_cmd}'
RunCmd(final_cmd) == <<"s","t","a","r","t"," ","/","w","a","i","t"," ","\"","\""," ">> \o final_cmd

\* the command line install_program runs
InstallProgramCmd(cmd_template, info, mode) ==
    LET quoted_path == Quoted(info.path)
        base_cmd_for_mode == Format(cmd_template, quoted_path)
    IN RunCmd(FinalCmd(base_cmd_for_mode,
                       Replace(Replace(base_cmd_for_mode, <<"/","q","n">>, <<"/","q","b">>), <<"/","s">>, <<>>),
                       quoted_path, info.installer_type, mode))

generic_commands ==
    ".exe" :> <<"{installer_path}"," ","/","S"," ","/","N","O","R","E","S","T","A","R","T">>
    @@ ".msi" :> <<"m","s","i","e","x","e","c"," ","/","i"," ","\"","{installer_path}","\""," ","/","q","n"," ","/","n","o","r","e","s","t","a","r","t">>

\* the command line install_unidentified_program runs
InstallUnidentifiedCmd(cmd_template, installer_info, mode) ==
    LET quoted_path == Quoted(installer_info.path)
        base_cmd == Format(cmd_template, quoted_path)
    IN RunCmd(FinalCmd(base_cmd, Replace(base_cmd, <<"/","q","n">>, <<"/","q","b">>),
                       quoted_path, installer_info.installer_type, mode))

Modes == {"auto", "semi", "manual"}

\* the command templates of the catalogs, and the command lines for each
\* template, artifact and mode, evaluated once
Templates == {T_cmd_exe_S, T_cmd_exe_isv, T_cmd_msi}
InstallProgramCmdOf ==
    [cmd_template \in Templates, info \in Artifacts, mode \in Modes |->
        InstallProgramCmd(cmd_template, info, mode)]
InstallUnidentifiedCmdOf ==
    [info \in {a \in Artifacts : a.installer_type \in DOMAIN generic_commands},
     mode \in Modes |->
        InstallUnidentifiedCmd(generic_commands[info.installer_type], info, mode)]

-----------------------------------------------------------------------------
(* ProgramInstaller.install_program                                         *)

\* info.installer_type == '.msi' and info.file_properties.get('MSI_ProductCode')
HasProductCode(info) ==
    info.installer_type = ".msi" /\ Truthy(DictGet(info.file_properties, "MSI_ProductCode"))

\* "Failed (Code n)", "Uninstall failed (Code n)"
FailedCode(prefix, return_code) == <<prefix, ToString(return_code), ")">>

\* the record of a call that starts in the current state
Call(op, program_key, mode) ==
    [NoCall EXCEPT !.op = op, !.key = program_key, !.mode = mode,
                   !.had_entry = program_key \in DOMAIN installation_log]

\* a call that returns having changed nothing
Returns(call) ==
    /\ last' = call
    /\ UNCHANGED <<outside, config, registry, msi_products, search_path, program_status,
                   unidentified_installers, installation_log, log_file, disk_log>>

\* a call that returns having set install_error of the key and nothing else
ReturnsError(call, program_key, install_error) ==
    /\ program_status' = [program_status EXCEPT ![program_key].install_error = install_error]
    /\ last' = call
    /\ UNCHANGED <<outside, config, registry, msi_products, search_path, unidentified_installers,
                   installation_log, log_file, disk_log>>

\* "is_really_installed, found_version = WindowsUtils.check_registry(...)"
RegistryVerdict(r) ==
    [check |-> "check_registry", is_really_installed |-> r.found, found_version |-> r.version]

\* the check under "if ran_ok:": the product code of an .msi that has one, the
\* registry rules of the entry otherwise
PostInstallCheck(cfg, info, p) ==
    IF HasProductCode(info)
    THEN [check |-> "is_msi_product_installed",
          is_really_installed |->
              is_msi_product_installed(p.msi_products, info.file_properties["MSI_ProductCode"]),
          found_version |-> None]
    ELSE RegistryVerdict(check_registry(p.registry, cfg.check_method.keys))

\* mutant: the exit code alone decides; the post-install check is made and ignored
InstallVerdict_TrustExitCode(status, info, p, log, disk, v, rec) ==
    IF p.ran_ok
    THEN [status |-> [status EXCEPT !.is_installed = "True", !.install_error = None],
          installation_log |-> rec.installation_log, disk_log |-> rec.disk_log,
          steps |-> <<"run_command", v.check, "set_status">> \o rec.steps \o <<"return">>,
          check |-> v.check, is_really_installed |-> v.is_really_installed,
          found_version |-> v.found_version, result |-> "True"]
    ELSE [status |-> [status EXCEPT !.is_installed = "False",
                         !.install_error = FailedCode("Failed (Code ", p.return_code)],
          installation_log |-> log, disk_log |-> disk,
          steps |-> <<"run_command", "set_status", "return">>,
          check |-> "none", is_really_installed |-> FALSE,
          found_version |-> None, result |-> "False"]

\* mutant: the status is set from the exit code first and the check made after
InstallVerdict_StatusFirst(status, info, p, log, disk, v, rec) ==
    IF p.ran_ok
    THEN IF v.is_really_installed
         THEN [status |-> [status EXCEPT
                              !.is_installed = "True",
                              !.install_error = None,
                              !.last_installed_version =
                                  IF HasProductCode(info) THEN @ ELSE v.found_version],
               installation_log |-> rec.installation_log, disk_log |-> rec.disk_log,
               steps |-> <<"run_command", "set_status", v.check>> \o rec.steps \o <<"return">>,
               check |-> v.check, is_really_installed |-> TRUE,
               found_version |-> v.found_version, result |-> "True"]
         ELSE [status |-> [status EXCEPT !.is_installed = "False",
                                         !.install_error = <<"Verification failed">>],
               installation_log |-> log, disk_log |-> disk,
               steps |-> <<"run_command", "set_status", v.check, "return">>,
               check |-> v.check, is_really_installed |-> FALSE,
               found_version |-> None, result |-> "False"]
    ELSE [status |-> [status EXCEPT !.is_installed = "False",
                         !.install_error = FailedCode("Failed (Code ", p.return_code)],
          installation_log |-> log, disk_log |-> disk,
          steps |-> <<"run_command", "set_status", "return">>,
          check |-> "none", is_really_installed |-> FALSE,
          found_version |-> None, result |-> "False"]

\* mutant: the ledger entry is written before the verdict of the check is looked at
InstallVerdict_RecordUnverified(status, info, p, log, disk, v, rec) ==
    IF p.ran_ok
    THEN IF v.is_really_installed
         THEN [status |-> [status EXCEPT
                              !.is_installed = "True",
                              !.install_error = None,
                              !.last_installed_version =
                                  IF HasProductCode(info) THEN @ ELSE v.found_version],
               installation_log |-> rec.installation_log, disk_log |-> rec.disk_log,
               steps |-> <<"run_command", v.check, "set_status">> \o rec.steps \o <<"return">>,
               check |-> v.check, is_really_installed |-> TRUE,
               found_version |-> v.found_version, result |-> "True"]
         ELSE [status |-> [status EXCEPT !.is_installed = "False",
                                         !.install_error = <<"Verification failed">>],
               installation_log |-> rec.installation_log, disk_log |-> rec.disk_log,
               steps |-> <<"run_command", v.check, "set_status">> \o rec.steps \o <<"return">>,
               check |-> v.check, is_really_installed |-> FALSE,
               found_version |-> None, result |-> "False"]
    ELSE [status |-> [status EXCEPT !.is_installed = "False",
                         !.install_error = FailedCode("Failed (Code ", p.return_code)],
          installation_log |-> log, disk_log |-> disk,
          steps |-> <<"run_command", "set_status", "return">>,
          check |-> "none", is_really_installed |-> FALSE,
          found_version |-> None, result |-> "False"]

\* install_program from "if ran_ok:" on: p is what run_command returned and left
\* behind, v the post-install check, rec the ledger if _record_installation is
\* called. The status of the key, the ledger, the calls made in order.
InstallVerdict(status, info, p, log, disk, v, rec) ==
    IF p.ran_ok
    THEN IF v.is_really_installed
         THEN [status |-> [status EXCEPT
                              !.is_installed = "True",
                              !.install_error = None,
                              !.last_installed_version =
                                  IF HasProductCode(info) THEN @ ELSE v.found_version],
               installation_log |-> rec.installation_log, disk_log |-> rec.disk_log,
               steps |-> <<"run_command", v.check, "set_status">> \o rec.steps \o <<"return">>,
               check |-> v.check, is_really_installed |-> TRUE,
               found_version |-> v.found_version, result |-> "True"]
         ELSE [status |-> [status EXCEPT !.is_installed = "False",
                                         !.install_error = <<"Verification failed">>],
               installation_log |-> log, disk_log |-> disk,
               steps |-> <<"run_command", v.check, "set_status", "return">>,
               check |-> v.check, is_really_installed |-> FALSE,
               found_version |-> None, result |-> "False"]
    ELSE [status |-> [status EXCEPT !.is_installed = "False",
                         !.install_error = FailedCode("Failed (Code ", p.return_code)],
          installation_log |-> log, disk_log |-> disk,
          steps |-> <<"run_command", "set_status", "return">>,
          check |-> "none", is_really_installed |-> FALSE,
          found_version |-> None, result |-> "False"]

InstallAfterRun(status, cfg, program_key, info, p, log, disk, logfile, save_ok) ==
    InstallVerdict(status, info, p, log, disk,
                   PostInstallCheck(cfg, info, p),
                   _record_installation(log, disk, logfile, p.registry, program_key,
                                        cfg.display_name, info, save_ok))

\* the state after install_program has run its command; a is InstallAfterRun
InstallEffect(call, program_key, p, a) ==
    /\ registry' = p.registry
    /\ msi_products' = p.msi_products
    /\ program_status' = [program_status EXCEPT ![program_key] = a.status]
    /\ installation_log' = a.installation_log
    /\ disk_log' = a.disk_log
    /\ last' = [call EXCEPT !.ran_ok = p.ran_ok, !.steps = a.steps, !.check = a.check,
                            !.is_really_installed = a.is_really_installed,
                            !.version = a.found_version, !.result = a.result]
    /\ UNCHANGED <<outside, config, search_path, unidentified_installers, log_file>>

\* whether the saves of a session succeed: here the ledger file stays writable
SaveOutcomes == {TRUE}

\* mutant: install_program without the "already marked as installed" return
InstallWith_NoInstalledCheck(call, program_key, status, cfg, info, cmd_template) ==
    IF info = NoInfo
    THEN ReturnsError([call EXCEPT !.result = "False"], program_key,
                      <<"Installer not found">>)
    ELSE IF ~Truthy(cmd_template)
    THEN ReturnsError([call EXCEPT !.result = "False"], program_key,
                      <<"Missing command for ", info.installer_type>>)
    ELSE \E p \in run_command(registry, msi_products), save_ok \in SaveOutcomes :
           InstallEffect([call EXCEPT !.cmd = InstallProgramCmdOf[cmd_template, info, call.mode]],
                         program_key, p,
                         InstallAfterRun(status, cfg, program_key, info, p,
                                         installation_log, disk_log, log_file, save_ok))

\* install_program once the key is known to have a status
InstallWith(call, program_key, status, cfg, info, cmd_template) ==
    IF info = NoInfo
    THEN ReturnsError([call EXCEPT !.result = "False"], program_key,
                      <<"Installer not found">>)
    ELSE IF status.is_installed = "True"
    THEN Returns([call EXCEPT !.result = "True"])
    ELSE IF ~Truthy(cmd_template)
    THEN ReturnsError([call EXCEPT !.result = "False"], program_key,
                      <<"Missing command for ", info.installer_type>>)
    ELSE \E p \in run_command(registry, msi_products), save_ok \in SaveOutcomes :
           InstallEffect([call EXCEPT !.cmd = InstallProgramCmdOf[cmd_template, info, call.mode]],
                         program_key, p,
                         InstallAfterRun(status, cfg, program_key, info, p,
                                         installation_log, disk_log, log_file, save_ok))

\* install_program(program_key, mode)
install_program(program_key, mode) ==
    IF program_key \notin DOMAIN program_status
    THEN Returns([Call("install_program", program_key, mode) EXCEPT !.result = "False"])
    ELSE InstallWith(Call("install_program", program_key, mode), program_key,
                     program_status[program_key], config.cfg[program_key],
                     program_status[program_key].found_installer,
                     DictGet(config.cfg[program_key].install_commands,
                             program_status[program_key].found_installer.installer_type))

-----------------------------------------------------------------------------
(* ProgramInstaller.install_unidentified_program                            *)

\* the state after the command of install_unidentified_program has run: no
\* check, no status, no ledger entry
UnidentifiedEffect(call, p) ==
    /\ registry' = p.registry
    /\ msi_products' = p.msi_products
    /\ last' = [call EXCEPT !.ran_ok = p.ran_ok,
                            !.steps = <<"run_command", "return">>,
                            !.result = IF p.ran_ok THEN "True" ELSE "False"]
    /\ UNCHANGED <<outside, config, search_path, program_status, unidentified_installers,
                   installation_log, log_file, disk_log>>

\* install_unidentified_program(installer_info, mode)
install_unidentified_program(installer_info, mode) ==
    IF installer_info.installer_type \notin DOMAIN generic_commands
    THEN Returns([Call("install_unidentified_program", "", mode) EXCEPT !.result = "False"])
    ELSE \E p \in run_command(registry, msi_products) :
           UnidentifiedEffect(
               [Call("install_unidentified_program", "", mode) EXCEPT
                   !.cmd = InstallUnidentifiedCmdOf[installer_info, mode]],
               p)

-----------------------------------------------------------------------------
(* ProgramInstaller.uninstall_program                                       *)

\* mutant: the ledger is not consulted, the command comes from the registry
UninstallCmdOrig_RegistryOnly(log, statuses, cat, reg, program_key) ==
    IF program_key \in DOMAIN statuses
    THEN DictGet(_get_uninstall_info_from_registry(
                     reg, cat.cfg[program_key].display_name, <<>>),
                 "uninstall_string")
    ELSE None

\* cmd_orig as resolved from the ledger entry or, for a catalog key without
\* one, from the registry by display name; None when there is neither
UninstallCmdOrig(log, statuses, cat, reg, program_key) ==
    IF program_key \notin DOMAIN log
    THEN IF program_key \in DOMAIN statuses
         THEN DictGet(_get_uninstall_info_from_registry(
                          reg, cat.cfg[program_key].display_name, <<>>),
                      "uninstall_string")
         ELSE None
    ELSE DictGet(log[program_key], "uninstall_string")

\* the first GUID among the positions, else None
FirstGuid(cmd_orig, positions) ==
    IF positions # {} THEN <<cmd_orig[SetMin(positions)]>> ELSE None

\* product_code: the first GUID of an msiexec /x or /uninstall command, else None
UninstallProductCode(cmd_orig) ==
    IF IsMsiUninstall(Lower(cmd_orig)) THEN FirstGuid(cmd_orig, GuidPositions(cmd_orig))
    ELSE None

\* the command line uninstall_program runs
UninstallProgramCmd(cmd_orig, product_code) ==
    RunCmd(_add_silent_flags_to_command(
               IF Truthy(product_code) THEN <<"m","s","i","e","x","e","c"," ","/","x"," ">> \o product_code
               ELSE cmd_orig))

\* "is_still_installed, _ = WindowsUtils.check_registry(...)"
RegistryAbsence(r) == [check |-> "check_registry", verified_uninstalled |-> ~r.found]

\* the check under "# Verify uninstallation": the product code if the command
\* has one, else the registry rules of a key of the catalog, else none
PostUninstallCheck(statuses, cat, program_key, product_code, p) ==
    IF Truthy(product_code)
    THEN [check |-> "is_msi_product_installed",
          verified_uninstalled |-> ~is_msi_product_installed(p.msi_products, product_code)]
    ELSE IF program_key \in DOMAIN statuses
    THEN RegistryAbsence(check_registry(p.registry, cat.cfg[program_key].check_method.keys))
    ELSE [check |-> "none", verified_uninstalled |-> TRUE]

Without(log, program_key) == [k \in DOMAIN log \ {program_key} |-> log[k]]

\* "if program_key in self.installation_log: del ...; self._save_installation_log()"
DeleteEntry(log, disk, logfile, program_key, save_ok) ==
    IF program_key \in DOMAIN log
    THEN [installation_log |-> Without(log, program_key),
          disk_log |-> _save_installation_log(Without(log, program_key), disk, logfile,
                                              save_ok),
          steps |-> <<"del installation_log", "_save_installation_log">>]
    ELSE [installation_log |-> log, disk_log |-> disk, steps |-> <<>>]

\* "if program_key in self.program_status: ...install_error = ..."
SetError(statuses, program_key, install_error) ==
    IF program_key \in DOMAIN statuses
    THEN [statuses EXCEPT ![program_key].install_error = install_error]
    ELSE statuses

\* "if program_key in self.program_status:" of a verified uninstall
SetUninstalled(statuses, program_key) ==
    IF program_key \in DOMAIN statuses
    THEN [statuses EXCEPT ![program_key].is_installed = "False",
                          ![program_key].last_installed_version = None,
                          ![program_key].install_error = None]
    ELSE statuses

StatusStep(statuses, program_key) ==
    IF program_key \in DOMAIN statuses THEN <<"set_status">> ELSE <<>>

CheckStep(v) == IF v.check = "none" THEN <<>> ELSE <<v.check>>

\* mutant: the ledger entry is removed whenever the command was run
UninstallVerdict_AlwaysDelete(statuses, program_key, p, log, disk, v, del) ==
    [statuses |-> SetError(statuses, program_key, <<"Uninstall verification failed">>),
     installation_log |-> del.installation_log, disk_log |-> del.disk_log,
     steps |-> <<"run_command">> \o del.steps \o <<"return">>,
     check |-> "none", verified_uninstalled |-> FALSE, result |-> "False"]

\* mutant: a verified uninstall keeps the ledger entry
UninstallVerdict_KeepEntry(statuses, program_key, p, log, disk, v, del) ==
    [statuses |-> IF p.ran_ok /\ v.verified_uninstalled
                  THEN SetUninstalled(statuses, program_key)
                  ELSE statuses,
     installation_log |-> log, disk_log |-> disk,
     steps |-> <<"run_command">> \o CheckStep(v) \o <<"return">>,
     check |-> IF p.ran_ok THEN v.check ELSE "none",
     verified_uninstalled |-> p.ran_ok /\ v.verified_uninstalled,
     result |-> IF p.ran_ok /\ v.verified_uninstalled THEN "True" ELSE "False"]

\* mutant: the exit code alone decides; the post-uninstall check is made and ignored
UninstallVerdict_TrustExitCode(statuses, program_key, p, log, disk, v, del) ==
    IF p.ran_ok
    THEN [statuses |-> SetUninstalled(statuses, program_key),
          installation_log |-> del.installation_log, disk_log |-> del.disk_log,
          steps |-> <<"run_command">> \o CheckStep(v) \o del.steps
                    \o StatusStep(statuses, program_key) \o <<"return">>,
          check |-> v.check, verified_uninstalled |-> v.verified_uninstalled,
          result |-> "True"]
    ELSE [statuses |-> SetError(statuses, program_key,
                                FailedCode("Uninstall failed (Code ", p.return_code)),
          installation_log |-> log, disk_log |-> disk,
          steps |-> <<"run_command">> \o StatusStep(statuses, program_key) \o <<"return">>,
          check |-> "none", verified_uninstalled |-> FALSE, result |-> "False"]

\* mutant: a failed process marks the key not installed
UninstallVerdict_FailureClearsFlag(statuses, program_key, p, log, disk, v, del) ==
    IF p.ran_ok
    THEN IF v.verified_uninstalled
         THEN [statuses |-> SetUninstalled(statuses, program_key),
               installation_log |-> del.installation_log, disk_log |-> del.disk_log,
               steps |-> <<"run_command">> \o CheckStep(v) \o del.steps
                         \o StatusStep(statuses, program_key) \o <<"return">>,
               check |-> v.check, verified_uninstalled |-> TRUE, result |-> "True"]
         ELSE [statuses |-> SetError(statuses, program_key,
                                     <<"Uninstall verification failed">>),
               installation_log |-> log, disk_log |-> disk,
               steps |-> <<"run_command">> \o CheckStep(v)
                         \o StatusStep(statuses, program_key) \o <<"return">>,
               check |-> v.check, verified_uninstalled |-> FALSE, result |-> "False"]
    ELSE [statuses |-> SetUninstalled(statuses, program_key),
          installation_log |-> log, disk_log |-> disk,
          steps |-> <<"run_command">> \o StatusStep(statuses, program_key) \o <<"return">>,
          check |-> "none", verified_uninstalled |-> FALSE, result |-> "False"]

\* uninstall_program from "if ran_ok:" on: p is what run_command returned and
\* left behind, v the post-uninstall check, del the ledger if the entry is
\* deleted
UninstallVerdict(statuses, program_key, p, log, disk, v, del) ==
    IF p.ran_ok
    THEN IF v.verified_uninstalled
         THEN [statuses |-> SetUninstalled(statuses, program_key),
               installation_log |-> del.installation_log, disk_log |-> del.disk_log,
               steps |-> <<"run_command">> \o CheckStep(v) \o del.steps
                         \o StatusStep(statuses, program_key) \o <<"return">>,
               check |-> v.check, verified_uninstalled |-> TRUE, result |-> "True"]
         ELSE [statuses |-> SetError(statuses, program_key,
                                     <<"Uninstall verification failed">>),
               installation_log |-> log, disk_log |-> disk,
               steps |-> <<"run_command">> \o CheckStep(v)
                         \o StatusStep(statuses, program_key) \o <<"return">>,
               check |-> v.check, verified_uninstalled |-> FALSE, result |-> "False"]
    ELSE [statuses |-> SetError(statuses, program_key,
                                FailedCode("Uninstall failed (Code ", p.return_code)),
          installation_log |-> log, disk_log |-> disk,
          steps |-> <<"run_command">> \o StatusStep(statuses, program_key) \o <<"return">>,
          check |-> "none", verified_uninstalled |-> FALSE, result |-> "False"]

UninstallAfterRun(statuses, cat, program_key, product_code, p, log, disk, logfile, save_ok) ==
    UninstallVerdict(statuses, program_key, p, log, disk,
                     PostUninstallCheck(statuses, cat, program_key, product_code, p),
                     DeleteEntry(log, disk, logfile, program_key, save_ok))

\* the state after uninstall_program has run its command; a is UninstallAfterRun
UninstallEffect(call, p, a) ==
    /\ registry' = p.registry
    /\ msi_products' = p.msi_products
    /\ program_status' = a.statuses
    /\ installation_log' = a.installation_log
    /\ disk_log' = a.disk_log
    /\ last' = [call EXCEPT !.ran_ok = p.ran_ok, !.steps = a.steps, !.check = a.check,
                            !.is_really_installed = ~a.verified_uninstalled,
                            !.result = a.result]
    /\ UNCHANGED <<outside, config, search_path, unidentified_installers, log_file>>

\* uninstall_program from run_command on
UninstallRun(call, program_key, cmd_orig, product_code) ==
    \E p \in run_command(registry, msi_products), save_ok \in SaveOutcomes :
        UninstallEffect([call EXCEPT !.cmd = UninstallProgramCmd(cmd_orig, product_code)], p,
                        UninstallAfterRun(program_status, config, program_key, product_code,
                                          p, installation_log, disk_log, log_file, save_ok))

\* uninstall_program once cmd_orig is resolved
UninstallWith(call, program_key, cmd_orig) ==
    IF ~Truthy(cmd_orig)
    THEN Returns([call EXCEPT !.result = "False"])
    ELSE UninstallRun(call, program_key, cmd_orig, UninstallProductCode(cmd_orig))

\* uninstall_program(program_key)
uninstall_program(program_key) ==
    UninstallWith(Call("uninstall_program", program_key, ""), program_key,
                  UninstallCmdOrig(installation_log, program_status, config, registry,
                                   program_key))

-----------------------------------------------------------------------------
(* The engine at work: a session of scans, status checks, installs and      *)
(* uninstalls over one definition, started with or without a ledger file.   *)

\* what _find_potential_installers finds in each directory
DirectoryFiles ==
    <<"R1">> :> <<F_AppSetup, F_ToolMsi>>

\* a ledger entry left by an earlier session for a key the catalog no longer has
OldEntry ==
    "program_key" :> <<"old">> @@ "name" :> <<"O","l","d">>
    @@ "installer_path" :> <<"D1","\\","o","l","d",".","e","x","e">> @@ "installer_type" :> <<".exe">>
    @@ "uninstall_string" :> <<"u","n","o","l","d",".","e","x","e">>

\* the ledger file a session starts with
LedgerFile == "old" :> OldEntry

\* the mode the session installs in; the mode changes the command line only
SessionModes == {"auto"}

Init ==
    /\ OutsideIdle
    /\ config \in {Catalog_app, Catalog_tool}
    /\ registry = Frag_Base
    /\ msi_products = {}
    /\ search_path = None
    /\ program_status = _initialize_program_status(config)
    /\ unidentified_installers = <<>>
    /\ log_file \in BOOLEAN
    /\ disk_log = IF log_file THEN LedgerFile ELSE NoLog
    /\ installation_log = disk_log
    /\ last = NoCall

Next ==
    \/ \E path \in DOMAIN DirectoryFiles \cup {<<"R1", "\\", "f", ".", "t", "x", "t">>} : set_search_path(path)
    \/ search_path \in DOMAIN DirectoryFiles /\ scan_for_installers(DirectoryFiles[search_path])
    \/ check_installation_status(config.keys)
    \/ \E program_key \in ConfigKeys, mode \in SessionModes :
           install_program(program_key, mode)
    \/ \E i \in 1..Len(unidentified_installers), mode \in SessionModes :
           install_unidentified_program(unidentified_installers[i], mode)
    \/ \E program_key \in ConfigKeys \cup {"old"} : uninstall_program(program_key)

Spec == Init /\ [][Next]_vars

-----------------------------------------------------------------------------
(* Properties of install_program, install_unidentified_program and          *)
(* uninstall_program. A step whose last' names an operation is a call of    *)
(* that operation (or leaves every variable as it is).                      *)

\* the call ran its command line
Executed(call) == call.cmd # <<>>

\* a occurs among the steps, and before every occurrence of b
StepBefore(steps, a, b) ==
    \E i \in 1..Len(steps) :
        /\ steps[i] = a
        /\ \A j \in 1..Len(steps) : steps[j] = b => i < j

PostChecks == {"check_registry", "is_msi_product_installed"}

\* the ledger is the same at every key but program_key
SameElsewhere(log, new_log, program_key) ==
    /\ DOMAIN new_log \ {program_key} = DOMAIN log \ {program_key}
    /\ \A k \in DOMAIN log \ {program_key} : new_log[k] = log[k]

\* C2: when install_program has run its command, the process ended with a
\* success code and the post-install check did not find the program, the call
\* returns False, the key is marked not installed with the error
\* "Verification failed", which is none of the "Failed (Code n)" messages, and
\* the ledger in memory and on disk is left as it was.
C2_VerificationFailed ==
    [][(/\ last'.op = "install_program"
        /\ Executed(last')
        /\ last'.ran_ok
        /\ last'.check \in PostChecks
        /\ ~last'.is_really_installed)
       => /\ last'.result = "False"
          /\ program_status'[last'.key].is_installed = "False"
          /\ program_status'[last'.key].install_error = <<"Verification failed">>
          /\ \A c \in ReturnCodes :
                 program_status'[last'.key].install_error # FailedCode("Failed (Code ", c)
          /\ installation_log' = installation_log
          /\ disk_log' = disk_log]_vars

\* an install whose process succeeded, whose check found nothing, for a key
\* without a ledger entry
C2_Witness ==
    /\ last.op = "install_program"
    /\ Executed(last)
    /\ last.ran_ok
    /\ last.check = "check_registry"
    /\ ~last.is_really_installed
    /\ last.result = "False"
    /\ program_status[last.key].install_error = <<"Verification failed">>
    /\ last.key \notin DOMAIN installation_log

\* C3 as stated: every install_program call that runs its command makes the
\* post-install check, whatever the process outcome, before the status is set.
C3_CheckWhateverOutcome ==
    (last.op = "install_program" /\ Executed(last))
    => /\ last.check \in PostChecks
       /\ StepBefore(last.steps, last.check, "set_status")

\* C3 amended: install_program makes the post-install check exactly when the
\* process ended with a success code, and then before the status is set and
\* the call returns; after any other exit code or a timeout no check is made
\* and the key is marked not installed with "Failed (Code n)".
C3_CheckAfterSuccessOnly ==
    (last.op = "install_program" /\ Executed(last))
    => /\ last.steps[1] = "run_command"
       /\ last.ran_ok <=> last.check \in PostChecks
       /\ last.ran_ok =>
            /\ StepBefore(last.steps, last.check, "set_status")
            /\ StepBefore(last.steps, "set_status", "return")
            /\ last.check = IF HasProductCode(program_status[last.key].found_installer)
                            THEN "is_msi_product_installed" ELSE "check_registry"
       /\ ~last.ran_ok =>
            /\ \A i \in 1..Len(last.steps) : last.steps[i] \notin PostChecks
            /\ last.result = "False"
            /\ program_status[last.key].is_installed = "False"
            /\ \E c \in ReturnCodes \ success_codes :
                   program_status[last.key].install_error = FailedCode("Failed (Code ", c)

\* an install whose process failed: no check was made
C3_Witness ==
    /\ last.op = "install_program"
    /\ Executed(last)
    /\ ~last.ran_ok
    /\ last.check = "none"
    /\ last.steps = <<"run_command", "set_status", "return">>

\* C4: after install_program has run its command and returned True, the ledger
\* has an entry for the key with the path and type of the installer, and the
\* key is marked installed with the version the post-install check found.
C4_VerifiedInstallRecorded ==
    (last.op = "install_program" /\ Executed(last) /\ last.result = "True")
    => /\ last.key \in DOMAIN installation_log
       /\ DictGet(installation_log[last.key], "installer_path")
              = program_status[last.key].found_installer.path
       /\ DictGet(installation_log[last.key], "installer_type")
              = <<program_status[last.key].found_installer.installer_type>>
       /\ program_status[last.key].is_installed = "True"
       /\ program_status[last.key].last_installed_version = last.version

C6_FailedUninstallKeepsLedger ==
    [][(last'.op = "uninstall_program" /\ Executed(last') /\ last'.result = "False")
       => /\ installation_log' = installation_log
          /\ disk_log' = disk_log
          /\ last'.key \in DOMAIN program_status =>
               IF last'.ran_ok
               THEN program_status'[last'.key].install_error
                        = <<"Uninstall verification failed">>
               ELSE \E c \in ReturnCodes \ success_codes :
                        program_status'[last'.key].install_error
                            = FailedCode("Uninstall failed (Code ", c)]_vars

\* an uninstall of a key with an entry whose process succeeded and whose check
\* still finds the program
C6_Witness ==
    /\ last.op = "uninstall_program"
    /\ Executed(last)
    /\ last.result = "False"
    /\ last.ran_ok
    /\ last.had_entry
    /\ last.key \in DOMAIN installation_log
    /\ last.key \in DOMAIN program_status
    /\ program_status[last.key].install_error = <<"Uninstall verification failed">>

\* the ledger differs at key k between the two
ChangedAt(log, new_log, k) ==
    \/ k \in DOMAIN log /\ k \notin DOMAIN new_log
    \/ k \notin DOMAIN log /\ k \in DOMAIN new_log
    \/ k \in DOMAIN log /\ k \in DOMAIN new_log /\ log[k] # new_log[k]

LedgerKeys == ConfigKeys \cup {"old"}

\* the step writes the entry of k: an install of k whose check found the program
VerifiedInstallOf(call, k) ==
    /\ call.op = "install_program"
    /\ call.key = k
    /\ call.ran_ok
    /\ call.check \in PostChecks
    /\ call.is_really_installed

\* the step is an uninstall of k whose check found the program gone
VerifiedUninstallOf(call, k) ==
    /\ call.op = "uninstall_program"
    /\ call.key = k
    /\ call.ran_ok
    /\ call.check \in PostChecks
    /\ ~call.is_really_installed

\* C7 as stated: a ledger entry appears only in an install whose post-install
\* check found the program, and disappears only in an uninstall whose
\* post-uninstall check found it gone, keys outside the catalog included.
C7_LedgerOnlyByVerifiedActions ==
    [][\A k \in LedgerKeys :
         /\ (k \in DOMAIN installation_log' /\ ChangedAt(installation_log, installation_log', k))
            => VerifiedInstallOf(last', k)
         /\ (k \in DOMAIN installation_log /\ k \notin DOMAIN installation_log')
            => VerifiedUninstallOf(last', k)]_vars

\* C7 amended: a ledger entry appears only in an install whose post-install
\* check found the program; it disappears only in an uninstall whose process
\* ended with a success code and whose post-uninstall check found the program
\* gone or, for a key that is not in the catalog and a command without product
\* code, that made no check at all.
C7_LedgerByVerifiedOrUncheckable ==
    [][\A k \in LedgerKeys :
         /\ (k \in DOMAIN installation_log' /\ ChangedAt(installation_log, installation_log', k))
            => VerifiedInstallOf(last', k)
         /\ (k \in DOMAIN installation_log /\ k \notin DOMAIN installation_log')
            => \/ VerifiedUninstallOf(last', k)
               \/ /\ last'.op = "uninstall_program"
                  /\ last'.key = k
                  /\ last'.ran_ok
                  /\ last'.check = "none"
                  /\ k \notin DOMAIN program_status]_vars

\* the entry of a key outside the catalog is gone after an uninstall that made
\* no check
C7_Witness ==
    /\ last.op = "uninstall_program"
    /\ last.key = "old"
    /\ last.had_entry
    /\ last.ran_ok
    /\ last.check = "none"
    /\ last.result = "True"
    /\ "old" \notin DOMAIN installation_log

\* C8 as stated: none of the three operations that ran a command returns True
\* unless a post-action check was made and found the program present (install)
\* or absent (uninstall).
C8_SuccessOnlyIfVerified ==
    (/\ last.op \in {"install_program", "install_unidentified_program", "uninstall_program"}
     /\ Executed(last)
     /\ last.result = "True")
    => /\ last.check \in PostChecks
       /\ last.is_really_installed = (last.op # "uninstall_program")

\* C8 amended: install_program returns True after running a command only if its
\* post-install check found the program, and uninstall_program of a key of the
\* catalog or of a command with a product code only if its post-uninstall check
\* found it gone; install_unidentified_program, and uninstall_program of a key
\* outside the catalog without product code, make no check and return True
\* exactly when the process ended with a success code.
C8_SuccessOnlyIfVerifiedWhereCheckable ==
    Executed(last) =>
        /\ last.op = "install_program" =>
             last.result = "True" <=>
                 (last.ran_ok /\ last.check \in PostChecks /\ last.is_really_installed)
        /\ last.op = "uninstall_program" =>
             /\ last.ran_ok =>
                  last.check = "none" <=>
                      (last.key \notin DOMAIN program_status
                       /\ ~Truthy(UninstallProductCode(last.cmd)))
             /\ last.result = "True" <=>
                  /\ last.ran_ok
                  /\ last.check \in PostChecks => ~last.is_really_installed
        /\ last.op = "install_unidentified_program" =>
             /\ last.check = "none"
             /\ last.result = "True" <=> last.ran_ok

\* an unidentified installer was run, no check was made, the call returned True
C8_Witness ==
    /\ last.op = "install_unidentified_program"
    /\ Executed(last)
    /\ last.ran_ok
    /\ last.check = "none"
    /\ last.result = "True"

-----------------------------------------------------------------------------
(* Properties of a single existence rule.                                   *)

\* the call evaluated one rule, existence-only, with a path and no version value
OneExistenceRule(call) ==
    /\ call.op = "check_registry"
    /\ Len(call.rules) = 1
    /\ call.rules[1].check_existence
    /\ Truthy(call.rules[1].path)
    /\ call.rules[1].get_value = None

\* C11 as stated: for a rule list of one existence rule without version value,
\* check_registry returns (True, None) when the key of the path exists and
\* (False, None) when it does not, whatever the registry holds.
C11_ExistenceIffPathExists ==
    OneExistenceRule(last) =>
        /\ last.found = KeyExists(registry, RegKey(BaseHive(last.rules[1]), last.rules[1].path))
        /\ last.version = None

\* C11 amended: for a rule list of one existence rule without version value,
\* check_registry returns (True, None) when the key of the path exists and can
\* be opened for reading, and (False, None) when it does not exist or opening
\* it fails (access denied).
C11_ExistenceIffPathOpens ==
    OneExistenceRule(last) =>
        LET k == RegKey(BaseHive(last.rules[1]), last.rules[1].path)
        IN /\ last.found = (k \in DOMAIN registry /\ ~registry[k].denied)
           /\ last.version = None
           /\ last.consulted = 1

\* the key of the rule exists and cannot be opened: the rule is not satisfied
C11_Witness ==
    /\ OneExistenceRule(last)
    /\ RegKey("HKLM", last.rules[1].path) \in DOMAIN registry
    /\ registry[RegKey("HKLM", last.rules[1].path)].denied
    /\ ~last.found

-----------------------------------------------------------------------------
(* The heuristic score over artifacts of every shape: one artifact and one  *)
(* settings map are drawn, and the artifact is scored.                      *)

ScoreNames == {<<"s","e","t","u","p">>, <<"u","n","i","n","s","t","a","l","l">>, <<"A","p","p">>, <<"w","e","b","_","f","i","x">>}
ScoreSizes == {-1, 2, 6, 20, 200}
ScoreProductNames == {<<>>, <<"A","p","p">>, <<"S","e","t","u","p">>, <<"P","a","t","c","h">>, <<"r","u","n","t","i","m","e"," ","u","p","d","a","t","e">>,
                      <<"U","n","i","n","s","t","a","l","l">>}
ScoreDescriptions == {<<>>, <<"A","p","p">>, <<"S","e","t","u","p">>, <<"r","e","m","o","v","e">>}
ScoreCompanies == {<<>>, <<"A","c","m","e">>}
ScoreProps ==
    {NoProps} \cup
    {("ProductName" :> n @@ "FileDescription" :> d @@ "CompanyName" :> c) :
        n \in ScoreProductNames, d \in ScoreDescriptions, c \in ScoreCompanies}
SuffixText(type) == IF type = ".msi" THEN <<".","m","s","i">> ELSE <<".","e","x","e">>
ScoreArtifacts ==
    {[path |-> <<"D1", "\\">> \o name \o SuffixText(type),
      file_properties |-> props, installer_type |-> type, size_mb |-> size] :
        name \in ScoreNames, type \in {".msi", ".exe"}, props \in ScoreProps,
        size \in ScoreSizes}
ScoreSettings ==
    {DETECTION_SETTINGS,
     [exclude_uninstaller_hints |-> <<>>, min_file_size_mb |-> 0],
     [exclude_uninstaller_hints |-> <<<<"a","p","p">>>>, min_file_size_mb |-> 50]}

\* a call of _score_potential_installer(info) with self.settings = settings
ScoreCall(info, settings) ==
    /\ last' = [NoCall EXCEPT !.op = "_score_potential_installer",
                              !.files = <<info>>,
                              !.settings = settings,
                              !.score = _score_potential_installer(info, settings)]
    /\ UNCHANGED <<outside, config, registry, msi_products, search_path, program_status,
                   unidentified_installers, installation_log, log_file, disk_log>>

InitScore ==
    /\ OutsideIdle
    /\ config = Catalog2
    /\ registry = Frag_Base
    /\ msi_products = {}
    /\ search_path = None
    /\ program_status = _initialize_program_status(config)
    /\ unidentified_installers = <<>>
    /\ installation_log = NoLog
    /\ log_file = TRUE
    /\ disk_log = NoLog
    /\ \E info \in ScoreArtifacts, settings \in ScoreSettings :
           last = [NoCall EXCEPT !.op = "input", !.files = <<info>>,
                                 !.settings = settings]

NextScore == last.op = "input" /\ ScoreCall(last.files[1], last.settings)

SpecScore == InitScore /\ [][NextScore]_vars

\* C12: whatever the artifact's type, filename, size (readable or not) and
\* properties, and whatever the detection settings, the score returned by
\* _score_potential_installer lies between 0 and 1 (0 and 100 hundredths).
C12_ScoreWithinUnitInterval ==
    last.op = "_score_potential_installer" => 0 <= last.score /\ last.score <= 100

\* an executable whose penalties outweigh its rewards: the sum of the terms
\* is negative and the score returned is 0
C12_Witness ==
    /\ last.op = "_score_potential_installer"
    /\ last.files[1].installer_type = ".exe"
    /\ SumSeq(ScoreSteps(last.files[1], last.settings)) < 0
    /\ last.score = 0

-----------------------------------------------------------------------------
(* ProgramInstaller._find_potential_installers: the walk of the directory   *)
(* tree under the search path.  tree maps a directory, the sequence of the  *)
(* names that lead to it from the search path, to the files listed in it.   *)

\* the names a directory can have and the order in which a listing gives them
DirOrder == <<<<"s","u","b">>, <<"T","e","m","p">>>>

MaxDepth == 2

\* a file of a listing: size_mb is what stat() reports (-1: stat() fails),
\* props what the property reader returns (NoProps: nothing read),
\* product_code what get_msi_product_code returns
L_App ==
    [name |-> <<"A","p","p",".","e","x","e">>, size_mb |-> 50, product_code |-> None,
     props |-> ("ProductName" :> <<"A","p","p">> @@ "FileDescription" :> <<"A","p","p"," ","S","e","t","u","p">>
                @@ "CompanyName" :> <<"A","c","m","e">> @@ "OriginalFilename" :> <<>>)]
L_ToolMsi ==
    [name |-> <<"T","o","o","l",".","M","S","I">>, size_mb |-> 50, product_code |-> <<"{G1}">>,
     props |-> ("ProductName" :> <<"T","o","o","l">> @@ "Manufacturer" :> <<"A","c","m","e">>)]
L_Notes ==
    [name |-> <<"n","o","t","e","s",".","t","x","t">>, size_mb |-> 50, product_code |-> None, props |-> NoProps]
L_Small == [L_App EXCEPT !.name = <<"s","t","u","b",".","e","x","e">>, !.size_mb = 2]
L_Gone == [L_App EXCEPT !.name = <<"g","o","n","e",".","e","x","e">>, !.size_mb = -1]
L_Unread == [L_App EXCEPT !.name = <<"r","a","w",".","e","x","e">>, !.props = NoProps]
L_Jre == [L_App EXCEPT !.name = <<"j",".","e","x","e">>, !.props = ("ProductName" :> <<"J","R","E"," ","8">>)]
L_Driver == [L_App EXCEPT !.name = <<"d",".","e","x","e">>, !.props = ("FileDescription" :> <<"D","r","i","v","e","r">>)]
L_Fix == [L_App EXCEPT !.name = <<"F","i","x",".","e","x","e">>]

Listings ==
    {<<L_App>>,
     <<L_Notes, L_ToolMsi, L_Small, L_Gone>>,
     <<L_Unread, L_Jre, L_App, L_Driver, L_Fix>>}

\* the settings _find_potential_installers reads
WalkSettings ==
    {[ignore_dirs |-> {<<"t","e","m","p">>, <<"t","m","p">>},
      min_file_size_mb |-> 5,
      exclude_generic_names |-> <<<<"d","r","i","v","e","r">>, <<"r","e","d","i","s","t">>>>,
      exclude_by_property_substrings |-> <<<<"v","i","s","u","a","l"," ","c","+","+">>, <<"j","r","e">>>>,
      exclude_uninstaller_hints |-> DETECTION_SETTINGS.exclude_uninstaller_hints],
     [ignore_dirs |-> {<<"T","E","M","P">>},
      min_file_size_mb |-> 0,
      exclude_generic_names |-> <<>>,
      exclude_by_property_substrings |-> <<>>,
      exclude_uninstaller_hints |-> <<>>]}

\* the search paths of the walk: a directory, and a directory named Temp in it
WalkRoots == {<<"R1">>, <<"R1", "\\">> \o <<"T","e","m","p">>}

RECURSIVE LastDot(_, _)
LastDot(name, i) ==
    IF i = 0 THEN 0 ELSE IF name[i] = "." THEN i ELSE LastDot(name, i - 1)

\* Path.suffix
Suffix(name) ==
    LET i == LastDot(name, Len(name))
    IN IF i <= 1 \/ i = Len(name) THEN <<>> ELSE SubSeq(name, i, Len(name))

\* base_path joined with the names of directory d: str(Path(root))
RECURSIVE JoinPath(_, _)
JoinPath(base, d) ==
    IF d = <<>> THEN base ELSE JoinPath(base \o <<"\\">> \o Head(d), Tail(d))

\* {d.lower() for d in self.settings.get('ignore_dirs', set())}
ignore_dirs_lower(settings) == {Lower(d) : d \in settings.ignore_dirs}

\* "d for d in dirs if d.lower() not in ignore_dirs_lower"
KeptDir(name, ignored) == Lower(name) \notin ignored

\* os.walk(base_path, topdown=True) from directory d on, dirs filtered in
\* place: the directories visited, in the order they are visited
RECURSIVE Walk(_, _, _)
RECURSIVE WalkDirs(_, _, _, _)
Walk(tr, ignored, d) == <<d>> \o WalkDirs(tr, ignored, d, 1)
WalkDirs(tr, ignored, d, i) ==
    IF i > Len(DirOrder) THEN <<>>
    ELSE LET sub == Append(d, DirOrder[i])
         IN (IF sub \in DOMAIN tr /\ KeptDir(DirOrder[i], ignored)
             THEN Walk(tr, ignored, sub) ELSE <<>>)
            \o WalkDirs(tr, ignored, d, i + 1)

\* prop_vals_lower
PropValsLower(properties) ==
    {Lower(properties[k]) :
        k \in {n \in DOMAIN properties \cap
                     {"ProductName", "FileDescription", "OriginalFilename", "CompanyName"} :
                  Truthy(properties[n])}}

\* "for f in filters: if any(f in val for val in vals)", the filters lower-cased
FilterMatches(filters, vals) ==
    \E i \in 1..Len(filters) : \E val \in vals : Contains(Lower(filters[i]), val)

\* the properties of a file that is read: those of a package get the product
\* code and the version keys
ReadProperties(file, ext_lower) ==
    IF ext_lower = <<".","m","s","i">> /\ file.props # NoProps
    THEN LET version == PropGet(file.props, "ProductVersion")
         IN ("MSI_ProductCode" :> file.product_code) @@ ("ProductVersion" :> version)
            @@ ("MSI_ProductVersion" :> version) @@ file.props
    ELSE file.props

\* the body of "for filename in files": TRUE when the file passes all filters
PassesFilters(file, settings) ==
    LET ext_lower == Lower(Suffix(file.name))
        properties == ReadProperties(file, ext_lower)
        prop_vals_lower == PropValsLower(properties)
    IN /\ ext_lower \in {<<".","e","x","e">>, <<".","m","s","i">>}
       /\ file.size_mb >= 0
       /\ file.size_mb >= settings.min_file_size_mb
       /\ properties # NoProps
       /\ ~FilterMatches(settings.exclude_by_property_substrings, prop_vals_lower)
       /\ ~FilterMatches(settings.exclude_generic_names, prop_vals_lower)
       /\ ~FilterMatches(settings.exclude_uninstaller_hints,
                         prop_vals_lower \cup {Lower(file.name)})

\* FoundInstallerInfo(path=file_path, file_properties=properties, installer_type=ext_lower)
FoundInstallerInfo(base, d, file) ==
    LET ext_lower == Lower(Suffix(file.name))
    IN [path |-> JoinPath(base, d) \o <<"\\">> \o file.name,
        file_properties |-> ReadProperties(file, ext_lower),
        installer_type |-> IF ext_lower = <<".","m","s","i">> THEN ".msi" ELSE ".exe",
        size_mb |-> file.size_mb]

\* the files of the directories visited, from the i-th directory on
RECURSIVE PotentialFrom(_, _, _, _, _)
PotentialFrom(tr, base, visited, settings, i) ==
    IF i > Len(visited) THEN <<>>
    ELSE LET d == visited[i]
             passed == SelectSeq(tr[d], LAMBDA file : PassesFilters(file, settings))
         IN [j \in 1..Len(passed) |-> FoundInstallerInfo(base, d, passed[j])]
            \o PotentialFrom(tr, base, visited, settings, i + 1)

\* _find_potential_installers(search_path_str)
_find_potential_installers(tr, search_path_str, settings) ==
    PotentialFrom(tr, search_path_str,
                  Walk(tr, ignore_dirs_lower(settings), <<>>), settings, 1)

\* the sets of directories below a directory, at most depth levels deep
RECURSIVE Subtrees(_)
Subtrees(depth) ==
    IF depth = 0 THEN {{}}
    ELSE LET below == Subtrees(depth - 1)
             names == {DirOrder[i] : i \in 1..Len(DirOrder)}
         IN {UNION {IF f[n].present
                    THEN {<<n>>} \cup {<<n>> \o p : p \in f[n].sub} ELSE {} : n \in names} :
                f \in [names -> [present : BOOLEAN, sub : below]]}

\* every directory of a tree lists the same files
Trees ==
    {[d \in dirs \cup {<<>>} |-> listing] : dirs \in Subtrees(MaxDepth), listing \in Listings}

FindCall(settings) ==
    /\ last' = [NoCall EXCEPT !.op = "_find_potential_installers",
                              !.settings = settings,
                              !.files = _find_potential_installers(tree, search_path,
                                                                   settings)]
    /\ UNCHANGED <<outside, config, registry, msi_products, search_path, program_status,
                   unidentified_installers, installation_log, log_file, disk_log>>

InitWalk ==
    /\ config = Catalog2
    /\ registry = Frag_Base
    /\ msi_products = {}
    /\ search_path \in WalkRoots
    /\ program_status = _initialize_program_status(config)
    /\ unidentified_installers = <<>>
    /\ installation_log = NoLog
    /\ log_file = TRUE
    /\ disk_log = NoLog
    /\ tree \in Trees
    /\ fs = <<>>
    /\ threads = <<>>
    /\ active_threads = <<>>
    /\ ui = <<>>
    /\ \E settings \in WalkSettings : last = [NoCall EXCEPT !.op = "input",
                                                            !.settings = settings]

NextWalk == last.op = "input" /\ FindCall(last.settings)

SpecWalk == InitWalk /\ [][NextWalk]_vars

\* the names of the directories of a path: what is between its separators,
\* the file's name left out
RECURSIVE DirComponents(_)
DirComponents(path) ==
    IF LastSep(path, Len(path)) = 0 THEN {}
    ELSE LET parent == PathParent(path)
         IN {PathName(parent)} \cup DirComponents(parent)

\* C13: no artifact returned by _find_potential_installers has, anywhere in
\* its path, a directory whose name is in the ignored set, compared without
\* regard to case.
C13_NoIgnoredComponent ==
    last.op = "_find_potential_installers" =>
        \A i \in 1..Len(last.files) :
            \A c \in DirComponents(last.files[i].path) :
                Lower(c) \notin ignore_dirs_lower(last.settings)

\* the same for the directories below the search path: what the pruning of
\* the walk gives
C13_NoIgnoredComponentBelowRoot ==
    last.op = "_find_potential_installers" =>
        \A i \in 1..Len(last.files) :
            \A c \in DirComponents(SubSeq(last.files[i].path, Len(search_path) + 1,
                                          Len(last.files[i].path))) :
                c = <<>> \/ Lower(c) \notin ignore_dirs_lower(last.settings)

-----------------------------------------------------------------------------
(* The Matcher's choice, stated over the result of a scan.                  *)

\* the paths claimed by the definitions before the i-th of the catalog
ClaimedBefore(i) ==
    {program_status[config.keys[j]].found_installer.path :
        j \in {n \in 1..(i - 1) : program_status[config.keys[n]].found_installer # NoInfo}}

\* the positions in the scanned list of the candidates left to the i-th definition
Unclaimed(i) == {n \in 1..Len(last.files) : last.files[n].path \notin ClaimedBefore(i)}

\* the signal score of the n-th scanned artifact for the i-th definition
Signal(i, n) == MatchScoreOf[last.files[n], config.cfg[config.keys[i]].identity]

\* C14: in catalog order each definition is matched to the unclaimed artifact
\* of the highest signal score (pattern 1, description 2, product name 3) if
\* that score is positive, to the earliest in scan order among those of equal
\* highest score, and to none if every unclaimed artifact scores 0.
C14_BestUnclaimedFirstWins ==
    (last.op = "scan_for_installers" /\ last.result = "scanned") =>
        \A i \in 1..Len(config.keys) :
            LET found == program_status[config.keys[i]].found_installer
            IN IF \A n \in Unclaimed(i) : Signal(i, n) = 0
               THEN found = NoInfo
               ELSE \E m \in Unclaimed(i) :
                       /\ found = last.files[m]
                       /\ Signal(i, m) > 0
                       /\ \A n \in Unclaimed(i) : Signal(i, n) <= Signal(i, m)
                       /\ \A n \in Unclaimed(i) : Signal(i, n) = Signal(i, m) => m <= n

\* a scan with two unclaimed artifacts of the same positive score for a
\* definition, which is matched to the first of them
C14_Witness ==
    /\ last.op = "scan_for_installers"
    /\ last.result = "scanned"
    /\ \E i \in 1..Len(config.keys) :
          /\ {1, 2} \subseteq Unclaimed(i)
          /\ Signal(i, 1) > 0
          /\ Signal(i, 2) = Signal(i, 1)
          /\ program_status[config.keys[i]].found_installer = last.files[1]

-----------------------------------------------------------------------------
(* The unidentified list, stated over the result of a scan.                 *)

\* the paths the definitions of the catalog have as their match
ClaimedPaths ==
    {program_status[k].found_installer.path :
        k \in {key \in DOMAIN program_status : program_status[key].found_installer # NoInfo}}

\* the scanned artifacts that no definition claimed and that the heuristic
\* scores at or above the threshold
ProbableUnclaimed ==
    {last.files[n] : n \in {i \in 1..Len(last.files) :
                                /\ last.files[i].path \notin ClaimedPaths
                                /\ ReachesThreshold[last.files[i]]}}

\* C15: after a scan the unidentified list holds exactly the scanned
\* artifacts that no definition claimed and whose heuristic score is at least
\* the threshold 0.5, each once, in the order of their filenames.
C15_UnidentifiedExactlyProbableUnclaimed ==
    (last.op = "scan_for_installers" /\ last.result \in {"scanned", "none found"}) =>
        /\ {unidentified_installers[i] : i \in 1..Len(unidentified_installers)}
               = ProbableUnclaimed
        /\ Len(unidentified_installers) = Cardinality(ProbableUnclaimed)
        /\ \A i, j \in 1..Len(unidentified_installers) :
               i < j => ~StrLess(NameLower[unidentified_installers[j]],
                                 NameLower[unidentified_installers[i]])

\* a scan that matches one artifact to a definition although its heuristic
\* score reaches the threshold, and lists another
C15_Witness ==
    /\ last.op = "scan_for_installers"
    /\ last.result = "scanned"
    /\ Len(unidentified_installers) = 1
    /\ \E n \in 1..Len(last.files) :
          /\ last.files[n].path \in ClaimedPaths
          /\ ReachesThreshold[last.files[n]]

-----------------------------------------------------------------------------
(* The ledger file on disk.  A file is there or not, and its content is a   *)
(* sequence of tokens: the braces of the JSON object, one token for each    *)
(* "key": {...} member, and bytes that are no UTF-8 text.                   *)

NoFile == [exists |-> FALSE, text |-> <<>>]
File(text) == [exists |-> TRUE, text |-> text]

Tok(kind, key, val) == [kind |-> kind, key |-> key, val |-> val]
OpenBrace == Tok("{", "", NoProps)
CloseBrace == Tok("}", "", NoProps)
Member(key, val) == Tok("member", key, val)
BadBytes == Tok("bytes", "", NoProps)

\* the order in which the keys of a ledger are written
KeyOrder == <<"app", "old", "tool">>

\* json.dump(self.installation_log, f, indent=2, ensure_ascii=False): the text
RECURSIVE DumpFrom(_, _)
DumpFrom(log, i) ==
    IF i > Len(KeyOrder) THEN <<CloseBrace>>
    ELSE (IF KeyOrder[i] \in DOMAIN log
          THEN <<Member(KeyOrder[i], log[KeyOrder[i]])>> ELSE <<>>)
         \o DumpFrom(log, i + 1)
Dump(log) == <<OpenBrace>> \o DumpFrom(log, 1)

\* open(..., encoding='utf-8') and read: the bytes decode
Decodable(text) == \A i \in 1..Len(text) : text[i].kind # "bytes"

\* json.load accepts the text: one object, its members between the braces
WellFormed(text) ==
    /\ Len(text) >= 2
    /\ text[1].kind = "{"
    /\ text[Len(text)].kind = "}"
    /\ \A i \in 2..(Len(text) - 1) : text[i].kind = "member"

\* json.load(f) of a text it accepts: of two members with one key the later
Parsed(text) ==
    LET at(k) == CHOOSE i \in 2..(Len(text) - 1) :
                     /\ text[i].key = k
                     /\ \A j \in (i + 1)..(Len(text) - 1) : text[j].key # k
    IN [k \in {text[i].key : i \in 2..(Len(text) - 1)} |-> text[at(k)].val]

\* mutant: a file that cannot be decoded is moved aside like one that is no JSON
_load_installation_log_MoveUndecodable(logfile, disk, open_ok, move_ok) ==
    IF ~logfile
    THEN [installation_log |-> NoLog, fs |-> disk, outcome |-> "no path"]
    ELSE IF ~disk.log.exists
    THEN [installation_log |-> NoLog, fs |-> disk, outcome |-> "missing"]
    ELSE IF ~open_ok
    THEN [installation_log |-> NoLog, fs |-> disk, outcome |-> "OSError"]
    ELSE IF ~Decodable(disk.log.text) \/ ~WellFormed(disk.log.text)
    THEN [installation_log |-> NoLog,
          fs |-> IF move_ok
                 THEN [disk EXCEPT !.log = NoFile, !.corrupt = disk.log]
                 ELSE disk,
          outcome |-> "JSONDecodeError"]
    ELSE [installation_log |-> Parsed(disk.log.text), fs |-> disk, outcome |-> "loaded"]

\* _load_installation_log(): the ledger in memory and the files afterwards.
\* open_ok: the file can be opened for reading; move_ok: shutil.move succeeds
_load_installation_log(logfile, disk, open_ok, move_ok) ==
    IF ~logfile
    THEN [installation_log |-> NoLog, fs |-> disk, outcome |-> "no path"]
    ELSE IF ~disk.log.exists
    THEN [installation_log |-> NoLog, fs |-> disk, outcome |-> "missing"]
    ELSE IF ~open_ok
    THEN [installation_log |-> NoLog, fs |-> disk, outcome |-> "OSError"]
    ELSE IF ~Decodable(disk.log.text)
    THEN [installation_log |-> NoLog, fs |-> disk, outcome |-> "UnicodeDecodeError"]
    ELSE IF ~WellFormed(disk.log.text)
    THEN [installation_log |-> NoLog,
          fs |-> IF move_ok
                 THEN [disk EXCEPT !.log = NoFile, !.corrupt = disk.log]
                 ELSE disk,
          outcome |-> "JSONDecodeError"]
    ELSE [installation_log |-> Parsed(disk.log.text), fs |-> disk, outcome |-> "loaded"]

\* ProgramInstaller(): the constructor, as far as the ledger goes
__init__(open_ok, move_ok) ==
    LET loaded == _load_installation_log(log_file, fs, open_ok, move_ok)
    IN /\ installation_log' = loaded.installation_log
       /\ fs' = loaded.fs
       /\ last' = [NoCall EXCEPT !.op = "__init__", !.check = loaded.outcome]
       /\ UNCHANGED <<config, registry, msi_products, search_path, program_status,
                      unidentified_installers, log_file, disk_log, tree, threads,
                      active_threads, ui>>

\* the entry a verified install of a key writes, reduced to three of its fields
TaskEntry(program_key) ==
    "program_key" :> <<program_key>>
    @@ "name" :> Cfg_app.display_name
    @@ "uninstall_string" :> <<"u","n",".","e","x","e">>

\* the ledgers and the texts a ledger file can hold when the engine starts:
\* complete dumps, dumps cut short, two dumps written over each other, bytes
Ledgers ==
    {[k \in keys |-> IF k = "old" THEN OldEntry ELSE TaskEntry(k)] :
        keys \in SUBSET {"app", "old", "tool"}}
StartTexts ==
    UNION {{SubSeq(Dump(log), 1, n) : n \in 0..Len(Dump(log))} : log \in Ledgers}
    \cup {Dump(log) \o <<CloseBrace>> : log \in Ledgers}
    \cup {<<BadBytes>>, <<OpenBrace, BadBytes, CloseBrace>>}

InitLoad ==
    /\ config = Catalog2
    /\ registry = Frag_Base
    /\ msi_products = {}
    /\ search_path = None
    /\ program_status = _initialize_program_status(config)
    /\ unidentified_installers = <<>>
    /\ installation_log = NoLog
    /\ log_file \in BOOLEAN
    /\ disk_log = NoLog
    /\ tree = <<>>
    /\ threads = <<>>
    /\ active_threads = <<>>
    /\ ui = <<>>
    /\ \E log \in {NoFile} \cup {File(text) : text \in StartTexts},
          corrupt \in {NoFile, File(<<OpenBrace>>)} :
           fs = [log |-> IF log_file THEN log ELSE NoFile, tmp |-> NoFile,
                 corrupt |-> corrupt]
    /\ last = NoCall

NextLoad == last.op = "init" /\ \E open_ok, move_ok \in BOOLEAN : __init__(open_ok, move_ok)

SpecLoad == InitLoad /\ [][NextLoad]_vars

\* the file at the ledger path is there and json.load does not accept it
Unparsable(file) == file.exists /\ (~Decodable(file.text) \/ ~WellFormed(file.text))

\* C17 as stated: a ledger file that is there and does not parse leaves the
\* ledger in memory empty and is moved to the '.corrupt' path, so that no file
\* is at the ledger path; with no file there the ledger is empty and no file
\* changes.
C17_UnparsableMovedAside ==
    [][(last'.op = "__init__" /\ log_file) =>
          /\ Unparsable(fs.log) =>
                /\ installation_log' = NoLog
                /\ fs'.log = NoFile
                /\ fs'.corrupt = fs.log
          /\ ~fs.log.exists => (installation_log' = NoLog /\ fs' = fs)]_vars

\* C17, amended: the ledger in memory is empty in both cases; the file is
\* moved aside when it is text that is no JSON object and the move succeeds,
\* and stays where it is when it cannot be decoded or the move fails.
C17_EmptyLedgerMovedIfPossible ==
    [][(last'.op = "__init__" /\ log_file) =>
          /\ Unparsable(fs.log) =>
                /\ installation_log' = NoLog
                /\ \/ fs' = fs
                   \/ /\ Decodable(fs.log.text)
                      /\ fs' = [fs EXCEPT !.log = NoFile, !.corrupt = fs.log]
                /\ (last'.check = "UnicodeDecodeError") => fs' = fs
          /\ ~fs.log.exists => (installation_log' = NoLog /\ fs' = fs)
          /\ (fs.log.exists /\ ~Unparsable(fs.log)) => fs' = fs]_vars

\* a ledger file cut short was moved aside over an older .corrupt file
C17_Witness ==
    /\ last.op = "__init__"
    /\ last.check = "JSONDecodeError"
    /\ installation_log = NoLog
    /\ ~fs.log.exists
    /\ fs.corrupt.exists
    /\ Len(fs.corrupt.text) >= 2

-----------------------------------------------------------------------------
(* WorkerThread.run for the install and uninstall tasks, step by step: the  *)
(* command, the verification with the change of the ledger in memory, and   *)
(* the steps of _save_installation_log on the files.  The engine object and *)
(* the files are shared by all threads; nothing in the code locks them.     *)

\* a WorkerThread: its task, the key it works on, where its run() is,
\* whether it holds the .tmp file open and what it has written to the handle
\* that is not yet in the file, and whether a system call of its own failed
Worker(task_name, arg) ==
    [task_name |-> task_name, arg |-> arg, pc |-> "run", handle |-> FALSE,
     snapshot |-> <<>>, verified |-> FALSE, io_error |-> FALSE]

\* QThread.isRunning()
isRunning(t) == threads[t].pc \notin {"finished", "dead"}

\* what no step of a worker changes
fixed == <<config, registry, msi_products, search_path, unidentified_installers,
           log_file, disk_log, last, tree, active_threads, ui>>

\* writing text at the start of a file that holds old
Overlay(old, text) == text \o SubSeq(old, Len(text) + 1, Len(old))

\* another thread holds the .tmp file open: Windows then refuses to rename
\* or delete it
OpenElsewhere(t) == \E u \in DOMAIN threads : u # t /\ threads[u].handle

\* run_command returns: with a failure code the task ends without a check
CommandDone(t, ran_ok) ==
    /\ threads[t].pc = "run"
    /\ threads' = [threads EXCEPT ![t].pc = IF ran_ok THEN "verify" ELSE "finished"]
    /\ program_status' =
           IF ran_ok THEN program_status
           ELSE IF threads[t].task_name = "install"
           THEN [program_status EXCEPT
                    ![threads[t].arg].is_installed = "False",
                    ![threads[t].arg].install_error = <<"Failed (Code ", "1", ")">>]
           ELSE SetError(program_status, threads[t].arg,
                         <<"Uninstall failed (Code ", "1", ")">>)
    /\ UNCHANGED <<fixed, installation_log, fs>>

\* the threads whose json.dump is iterating the ledger
Dumping == {u \in DOMAIN threads : threads[u].pc = "dump"}

\* the post-check and what follows it in memory: a verified install sets the
\* status and, if there is a ledger path, stores the entry; a verified
\* uninstall deletes the entry the ledger has; then comes the save.  A json.dump of another thread that is iterating the
\* ledger when its size changes raises RuntimeError (hit: those threads); the
\* with statement closes its file, with the opening brace written.
Verify(t, verified, hit) ==
    /\ threads[t].pc = "verify"
    /\ hit \subseteq Dumping
    /\ LET task == threads[t].task_name
           key == threads[t].arg
           records == verified /\ task = "install" /\ log_file
           deletes == verified /\ task = "uninstall" /\ key \in DOMAIN installation_log
           changes == (records /\ key \notin DOMAIN installation_log) \/ deletes
           saves == log_file /\ (records \/ deletes)
       IN /\ hit # {} => changes
          /\ installation_log' =
                 IF records THEN (key :> TaskEntry(key)) @@ installation_log
                 ELSE IF deletes THEN Without(installation_log, key)
                 ELSE installation_log
          /\ program_status' =
                 IF task = "install"
                 THEN IF verified
                      THEN [program_status EXCEPT ![key].is_installed = "True",
                                                  ![key].install_error = None]
                      ELSE [program_status EXCEPT
                               ![key].is_installed = "False",
                               ![key].install_error = <<"Verification failed">>]
                 ELSE IF verified THEN program_status
                 ELSE SetError(program_status, key, <<"Uninstall verification failed">>)
          /\ threads' = [u \in DOMAIN threads |->
                 IF u = t
                 THEN [threads[t] EXCEPT !.verified = verified,
                                         !.pc = IF saves THEN "save"
                                                ELSE IF verified THEN "status"
                                                ELSE "finished"]
                 ELSE IF u \in hit
                 THEN [threads[u] EXCEPT !.pc = "except", !.handle = FALSE,
                                         !.snapshot = <<>>]
                 ELSE threads[u]]
          /\ fs' = IF hit = {} THEN fs
                   ELSE [fs EXCEPT !.tmp.text = Overlay(@, <<OpenBrace>>)]
    /\ UNCHANGED fixed

\* _save_installation_log: mkdir and open(tmp_log_file, 'w'), which creates
\* the file or cuts it to nothing
SaveOpen(t, ok) ==
    /\ threads[t].pc = "save"
    /\ IF ok
       THEN /\ fs' = [fs EXCEPT !.tmp = File(<<>>)]
            /\ threads' = [threads EXCEPT ![t].pc = "dump", ![t].handle = TRUE]
       ELSE /\ fs' = fs
            /\ threads' = [threads EXCEPT ![t].pc = "except", ![t].io_error = TRUE]
    /\ UNCHANGED <<fixed, installation_log, program_status>>

\* json.dump(self.installation_log, f): the text stays in the buffers of the
\* handle until it is closed, or, too long for them, goes to the file
SaveDump(t, buffered) ==
    /\ threads[t].pc = "dump"
    /\ IF buffered
       THEN /\ threads' = [threads EXCEPT ![t].pc = "close",
                                          ![t].snapshot = Dump(installation_log)]
            /\ fs' = fs
       ELSE /\ threads' = [threads EXCEPT ![t].pc = "close"]
            /\ fs' = [fs EXCEPT !.tmp.text = Overlay(@, Dump(installation_log))]
    /\ UNCHANGED <<fixed, installation_log, program_status>>

\* the end of the with statement: the buffers are written and the handle closed
SaveClose(t, ok) ==
    /\ threads[t].pc = "close"
    /\ IF ok
       THEN /\ fs' = [fs EXCEPT !.tmp.text = Overlay(@, threads[t].snapshot)]
            /\ threads' = [threads EXCEPT ![t].pc = "replace", ![t].handle = FALSE,
                                          ![t].snapshot = <<>>]
       ELSE /\ fs' = fs
            /\ threads' = [threads EXCEPT ![t].pc = "except", ![t].handle = FALSE,
                                          ![t].snapshot = <<>>, ![t].io_error = TRUE]
    /\ UNCHANGED <<fixed, installation_log, program_status>>

\* where a task goes when its save is over
AfterSave(t) == IF threads[t].task_name = "uninstall" THEN "status" ELSE "finished"

\* os.replace(tmp_log_file, self._log_file)
SaveReplace(t, ok) ==
    /\ threads[t].pc = "replace"
    /\ IF fs.tmp.exists /\ ~OpenElsewhere(t) /\ ok
       THEN /\ fs' = [fs EXCEPT !.log = fs.tmp, !.tmp = NoFile]
            /\ threads' = [threads EXCEPT ![t].pc = AfterSave(t)]
       ELSE /\ fs' = fs
            /\ threads' = [threads EXCEPT
                              ![t].pc = "except",
                              ![t].io_error = @ \/ (fs.tmp.exists /\ ~OpenElsewhere(t))]
    /\ UNCHANGED <<fixed, installation_log, program_status>>

\* except Exception: the temporary file is removed if it is there and
\* Windows lets it go
SaveCleanup(t) ==
    /\ threads[t].pc = "except"
    /\ fs' = IF fs.tmp.exists /\ ~OpenElsewhere(t) THEN [fs EXCEPT !.tmp = NoFile] ELSE fs
    /\ threads' = [threads EXCEPT ![t].pc = AfterSave(t)]
    /\ UNCHANGED <<fixed, installation_log, program_status>>

\* uninstall_program after the entry is gone: the status in memory
UninstallStatus(t) ==
    /\ threads[t].pc = "status"
    /\ program_status' = SetUninstalled(program_status, threads[t].arg)
    /\ threads' = [threads EXCEPT ![t].pc = "finished"]
    /\ UNCHANGED <<fixed, installation_log, fs>>

\* the process is killed: what the handles had not written is lost
Crash ==
    /\ \E t \in DOMAIN threads : isRunning(t)
    /\ threads' = [t \in DOMAIN threads |->
                      [threads[t] EXCEPT !.pc = "dead", !.handle = FALSE,
                                         !.snapshot = <<>>]]
    /\ UNCHANGED <<fixed, installation_log, program_status, fs>>

\* a step of some worker
WorkerStep(t) ==
    \/ \E ran_ok \in BOOLEAN : CommandDone(t, ran_ok)
    \/ \E verified \in BOOLEAN, hit \in SUBSET (DOMAIN threads \ {t}) : Verify(t, verified, hit)
    \/ \E ok \in BOOLEAN : SaveOpen(t, ok)
    \/ \E buffered \in BOOLEAN : SaveDump(t, buffered)
    \/ \E ok \in BOOLEAN : SaveClose(t, ok)
    \/ \E ok \in BOOLEAN : SaveReplace(t, ok)
    \/ SaveCleanup(t)
    \/ UninstallStatus(t)

\* the tasks of two keys, started together from one selection or one after
\* the other; a key that is uninstalled has its entry in the ledger
Statuses(installed) ==
    [k \in {"app", "tool"} |->
        [ProgramStatus EXCEPT
            !.found_installer = IF k = "app" THEN F_AppSetup ELSE F_ToolMsi,
            !.is_installed = IF k \in installed THEN "True" ELSE "False"]]

InitWriters ==
    /\ config = Catalog2
    /\ registry = Frag_Base
    /\ msi_products = {}
    /\ search_path = <<"R1">>
    /\ unidentified_installers = <<>>
    /\ log_file = TRUE
    /\ disk_log = NoLog
    /\ tree = <<>>
    /\ ui = <<>>
    /\ last = NoCall
    /\ active_threads = <<1, 2>>
    /\ \E task \in [{"app", "tool"} -> {"install", "uninstall"}], old \in BOOLEAN :
          LET installed == {k \in {"app", "tool"} : task[k] = "uninstall"}
              log == [k \in installed \cup (IF old THEN {"old"} ELSE {}) |->
                         IF k = "old" THEN OldEntry ELSE TaskEntry(k)]
          IN /\ threads = <<Worker(task["app"], "app"), Worker(task["tool"], "tool")>>
             /\ installation_log = log
             /\ program_status = Statuses(installed)
             /\ fs = [log |-> File(Dump(log)), tmp |-> NoFile, corrupt |-> NoFile]

NextWriters ==
    \/ \E t \in DOMAIN threads : WorkerStep(t)
    \/ Crash

SpecWriters == InitWriters /\ [][NextWriters]_vars

\* every task has ended and no system call failed for a reason outside the program
AllFinished ==
    \A t \in DOMAIN threads : threads[t].pc = "finished" /\ ~threads[t].io_error

\* C16: at every moment the ledger file at the target path is a complete
\* ledger, the old one or the new one, never a partial or mixed text,
\* whatever interrupts a save before its rename.
C16_TargetAlwaysComplete ==
    fs.log.exists => WellFormed(fs.log.text)

\* C20: once the concurrent tasks of different keys have all finished, the
\* ledger file is well-formed, holds what the ledger in memory holds, and has
\* the entry of every verified install and of no verified uninstall.
C20_CompletionsSerialized ==
    AllFinished =>
        /\ fs.log.exists
        /\ WellFormed(fs.log.text)
        /\ Parsed(fs.log.text) = installation_log
        /\ \A t \in DOMAIN threads :
              threads[t].verified =>
                  (threads[t].arg \in DOMAIN Parsed(fs.log.text))
                      = (threads[t].task_name = "install")

-----------------------------------------------------------------------------
(* The window and its tasks: ProgramInstallerUI starts a WorkerThread for   *)
(* every request that passes its checks.  The requests and the finished     *)
(* signals run one at a time on the GUI thread; the workers run beside it.  *)

\* how many WorkerThreads the window has had alive together
MaxThreads == 2

\* WorkerThread.task_name as text
TaskText ==
    "scan" :> <<"s","c","a","n">>
    @@ "check_status" :> <<"c","h","e","c","k","_","s","t","a","t","u","s">>
    @@ "install" :> <<"i","n","s","t","a","l","l">>
    @@ "uninstall" :> <<"u","n","i","n","s","t","a","l","l">>

\* _is_task_running(task_name_prefix) over a list of threads
_is_task_running_Never(thr, task_name_prefix) == FALSE
_is_task_running(thr, task_name_prefix) ==
    \E t \in DOMAIN thr :
        /\ thr[t].pc \notin {"finished", "dead"}
        /\ StartsWith(TaskText[thr[t].task_name], TaskText[task_name_prefix])

\* "status and status.found_installer and status.is_installed is False"
Installable(statuses, key) ==
    /\ key \in DOMAIN statuses
    /\ statuses[key].found_installer # NoInfo
    /\ statuses[key].is_installed = "False"

\* "status and status.is_installed", with or without a ledger entry
Uninstallable(statuses, key) ==
    key \in DOMAIN statuses /\ statuses[key].is_installed = "True"

\* _update_selection_info: the two buttons follow the selection and the
\* statuses, whether or not a task is running
_update_selection_info(u, statuses) ==
    [u EXCEPT !.install_button = \E key \in u.selection : Installable(statuses, key),
              !.uninstall_button = \E key \in u.selection : Uninstallable(statuses, key)]

\* _update_ui_state
_update_ui_state(u, thr, statuses, path) ==
    LET is_idle == \A t \in DOMAIN thr : thr[t].pc \in {"finished", "dead"}
        w == _update_selection_info(u, statuses)
    IN [w EXCEPT !.scan_action = is_idle /\ Truthy(path),
                 !.check_status_action = is_idle,
                 !.toolbar = is_idle,
                 !.install_button = is_idle /\ w.install_button,
                 !.uninstall_button = is_idle /\ w.uninstall_button]

\* _run_task(task_name, arg) on a list of threads: the list after it
_run_task(thr, task_name, arg) ==
    IF task_name \in {"scan", "check_status"} /\ _is_task_running(thr, task_name)
    THEN thr
    ELSE Append(thr, [Worker(task_name, arg) EXCEPT !.pc = "start"])

\* _run_task for each of the keys in turn
RECURSIVE RunTasks(_, _, _, _)
RunTasks(thr, task_name, keys, i) ==
    IF i > Len(keys) THEN thr
    ELSE RunTasks(_run_task(thr, task_name, keys[i]), task_name, keys, i + 1)

\* the window after a request: the threads it has started are in
\* active_threads and the widgets show the busy state
Requested(op, thr, u) ==
    /\ threads' = thr
    /\ active_threads' = [i \in 1..Len(thr) |-> i]
    /\ ui' = IF thr = threads THEN u
             ELSE _update_ui_state(u, thr, program_status, search_path)
    /\ last' = [NoCall EXCEPT !.op = op,
                              !.result = IF thr = threads THEN "rejected" ELSE "started"]
    /\ UNCHANGED <<config, registry, msi_products, search_path, program_status,
                   unidentified_installers, installation_log, log_file, disk_log,
                   tree, fs>>

\* _scan_programs(), from the Scan action of the toolbar
_scan_programs ==
    /\ ui.toolbar /\ ui.scan_action
    /\ Len(threads) < MaxThreads
    /\ IF ~Truthy(search_path) \/ _is_task_running(threads, "scan")
       THEN Requested("_scan_programs", threads, ui)
       ELSE Requested("_scan_programs", _run_task(threads, "scan", ""), ui)

\* _check_status(), u being the widgets and the timer when it is called
_check_status(u) ==
    IF _is_task_running(threads, "check_status")
    THEN Requested("_check_status", threads, u)
    ELSE Requested("_check_status", _run_task(threads, "check_status", ""), u)

\* the Check Status action of the toolbar
CheckStatusClick ==
    /\ ui.toolbar /\ ui.check_status_action
    /\ Len(threads) < MaxThreads
    /\ _check_status(ui)

\* _initial_status_check(), half a second after the window is built
_initial_status_check ==
    /\ ui.timer
    /\ Len(threads) < MaxThreads
    /\ IF Truthy(search_path)
       THEN _check_status([ui EXCEPT !.timer = FALSE])
       ELSE /\ ui' = [ui EXCEPT !.timer = FALSE]
            /\ last' = [NoCall EXCEPT !.op = "_initial_status_check"]
            /\ UNCHANGED <<config, registry, msi_products, search_path, program_status,
                           unidentified_installers, installation_log, log_file,
                           disk_log, tree, fs, threads, active_threads>>

\* the rows of the tree in order
TreeOrder == config.keys

\* _install_selected(): a task for every selected row that is installable,
\* if the user confirms
_install_selected(confirmed) ==
    /\ ui.install_button
    /\ LET tasks_to_run ==
               SelectSeq(TreeOrder, LAMBDA key : key \in ui.selection
                                                 /\ Installable(program_status, key))
       IN /\ Len(threads) + Len(tasks_to_run) <= MaxThreads
          /\ IF tasks_to_run = <<>> \/ ~confirmed
             THEN Requested("_install_selected", threads, ui)
             ELSE Requested("_install_selected",
                            RunTasks(threads, "install", tasks_to_run, 1), ui)

\* _uninstall_selected(): a task for every selected row that has an uninstall
\* string in the ledger or is installed
_uninstall_selected(confirmed) ==
    /\ ui.uninstall_button
    /\ LET tasks_to_run ==
               SelectSeq(TreeOrder,
                   LAMBDA key :
                       /\ key \in ui.selection
                       /\ \/ /\ key \in DOMAIN installation_log
                             /\ Truthy(DictGet(installation_log[key], "uninstall_string"))
                          \/ Uninstallable(program_status, key))
       IN /\ Len(threads) + Len(tasks_to_run) <= MaxThreads
          /\ IF tasks_to_run = <<>> \/ ~confirmed
             THEN Requested("_uninstall_selected", threads, ui)
             ELSE Requested("_uninstall_selected",
                            RunTasks(threads, "uninstall", tasks_to_run, 1), ui)

\* the user changes the selection of the tree: itemSelectionChanged
SelectionChanged(selection) ==
    /\ selection # ui.selection
    /\ ui' = _update_selection_info([ui EXCEPT !.selection = selection], program_status)
    /\ UNCHANGED <<config, registry, msi_products, search_path, program_status,
                   unidentified_installers, installation_log, log_file, disk_log,
                   last, tree, fs, threads, active_threads>>

\* _thread_finished(thread), on the finished signal of a thread
_thread_finished(t) ==
    /\ threads[t].pc = "finished"
    /\ LET thr == SubSeq(threads, 1, t - 1) \o SubSeq(threads, t + 1, Len(threads))
       IN /\ threads' = thr
          /\ active_threads' = [i \in 1..Len(thr) |-> i]
          /\ ui' = _update_ui_state(ui, thr, program_status, search_path)
    /\ UNCHANGED <<config, registry, msi_products, search_path, program_status,
                   unidentified_installers, installation_log, log_file, disk_log,
                   last, tree, fs>>

\* WorkerThread.run up to the command of an install or uninstall, or through
\* a status check, or to the reset a scan begins with
TaskStart(t) ==
    /\ threads[t].pc = "start"
    /\ LET task == threads[t].task_name
           key == threads[t].arg
           status == program_status[key]
           goes(pc) == threads' = [threads EXCEPT ![t].pc = pc]
       IN CASE task = "scan" ->
                 /\ IF Truthy(search_path)
                    THEN /\ program_status' =
                                [k \in DOMAIN program_status |->
                                    [program_status[k] EXCEPT !.found_installer = NoInfo]]
                         /\ unidentified_installers' = <<>>
                         /\ goes("match")
                    ELSE /\ UNCHANGED <<program_status, unidentified_installers>>
                         /\ goes("finished")
            [] task = "check_status" ->
                 /\ program_status' =
                        CheckStatusFrom(program_status, config, registry, msi_products,
                                        config.keys, 1)
                 /\ goes("finished")
                 /\ UNCHANGED unidentified_installers
            [] task = "install" ->
                 /\ UNCHANGED unidentified_installers
                 /\ IF status.found_installer = NoInfo
                    THEN /\ program_status' =
                                [program_status EXCEPT
                                    ![key].install_error = <<"Installer not found">>]
                         /\ goes("finished")
                    ELSE IF status.is_installed = "True"
                    THEN /\ program_status' = program_status
                         /\ goes("finished")
                    ELSE IF ~Truthy(DictGet(config.cfg[key].install_commands,
                                            status.found_installer.installer_type))
                    THEN /\ program_status' =
                                [program_status EXCEPT
                                    ![key].install_error =
                                        <<"Missing command for ",
                                          status.found_installer.installer_type>>]
                         /\ goes("finished")
                    ELSE /\ program_status' = program_status
                         /\ goes("run")
            [] task = "uninstall" ->
                 /\ UNCHANGED <<program_status, unidentified_installers>>
                 /\ IF Truthy(UninstallCmdOrig(installation_log, program_status, config,
                                               registry, key))
                    THEN goes("run")
                    ELSE goes("finished")
    /\ UNCHANGED <<config, registry, msi_products, search_path, installation_log,
                   log_file, disk_log, last, tree, fs, active_threads, ui>>

\* scan_for_installers once _find_potential_installers has returned
ScanMatch(t, potential_files) ==
    /\ threads[t].pc = "match"
    /\ LET m == MatchFrom(config, potential_files, 1,
                          [statuses |-> program_status, matched_keys |-> <<>>,
                           processed_paths |-> {}])
           remaining_files == SelectSeq(potential_files,
                                  LAMBDA info : info.path \notin m.processed_paths)
       IN /\ program_status' = m.statuses
          /\ unidentified_installers' =
                 unidentified_installers
                 \o SortByName(SelectSeq(remaining_files,
                                         LAMBDA info : ReachesThreshold[info]))
    /\ threads' = [threads EXCEPT ![t].pc = "finished"]
    /\ UNCHANGED <<config, registry, msi_products, search_path, installation_log,
                   log_file, disk_log, last, tree, fs, active_threads, ui>>

\* the window as _init_ui and _update_ui_state at line 1901 leave it, the
\* timer of the initial status check pending; APPDATA is not set, so there
\* is no ledger path and no task saves a ledger
InitTasks ==
    /\ config = Catalog_app
    /\ registry \in {Frag_Base, Frag_Base @@ Frag_AppU}
    /\ msi_products = {}
    /\ search_path \in {None, <<"R1">>}
    /\ program_status = _initialize_program_status(Catalog_app)
    /\ unidentified_installers = <<>>
    /\ log_file = FALSE
    /\ installation_log = NoLog
    /\ disk_log = NoLog
    /\ fs = [log |-> NoFile, tmp |-> NoFile, corrupt |-> NoFile]
    /\ tree = <<>>
    /\ last = NoCall
    /\ threads = <<>>
    /\ active_threads = <<>>
    /\ ui = [selection |-> {}, install_button |-> FALSE, uninstall_button |-> FALSE,
             scan_action |-> Truthy(search_path), check_status_action |-> TRUE,
             toolbar |-> TRUE, timer |-> TRUE]

NextTasks ==
    \/ _scan_programs
    \/ CheckStatusClick
    \/ _initial_status_check
    \/ \E confirmed \in BOOLEAN : _install_selected(confirmed)
    \/ \E confirmed \in BOOLEAN : _uninstall_selected(confirmed)
    \/ \E selection \in SUBSET ConfigKeys : SelectionChanged(selection)
    \/ \E t \in DOMAIN threads : _thread_finished(t)
    \/ \E t \in DOMAIN threads : TaskStart(t)
    \/ \E t \in DOMAIN threads : ScanMatch(t, DirectoryFiles[search_path])
    \/ \E t \in DOMAIN threads, ran_ok \in BOOLEAN : CommandDone(t, ran_ok)
    \/ \E t \in DOMAIN threads, verified \in BOOLEAN : Verify(t, verified, {})
    \/ \E t \in DOMAIN threads : UninstallStatus(t)

SpecTasks == InitTasks /\ [][NextTasks]_vars

\* the running threads of a task
InFlight(task_name) ==
    {t \in DOMAIN threads : threads[t].task_name = task_name /\ isRunning(t)}

\* the request handler of a task
Handler == "scan" :> "_scan_programs" @@ "check_status" :> "_check_status"

\* C18: at every moment at most one scan and at most one status check is in
\* flight, and a scan or status-check request made while one is running is
\* rejected and starts no worker.
C18_OneScanOneStatusCheck ==
    /\ [](\A task_name \in {"scan", "check_status"} : Cardinality(InFlight(task_name)) <= 1)
    /\ [][\A task_name \in {"scan", "check_status"} :
             (InFlight(task_name) # {} /\ last' # last /\ last'.op = Handler[task_name])
                 => (threads' = threads /\ last'.result = "rejected")]_vars

\* a status check was asked for while one was running, and was rejected
C18_Witness ==
    /\ last.op = "_check_status"
    /\ last.result = "rejected"
    /\ Cardinality(InFlight("check_status")) = 1

\* the thread is between the start of its command and the end of its
\* verification
ActionInFlight(t) ==
    threads[t].task_name \in {"install", "uninstall"} /\ threads[t].pc \in {"run", "verify"}

\* C19: no two install or uninstall actions of one key are in flight at the
\* same time.
C19_PerKeyExclusion ==
    \A t, u \in DOMAIN threads :
        (t # u /\ threads[t].arg = threads[u].arg)
            => ~(ActionInFlight(t) /\ ActionInFlight(u))

-----------------------------------------------------------------------------
(* install_program for a key that is marked installed.                      *)

\* the step is a call of install_program for a key marked installed
InstallOfInstalled ==
    /\ last'.op = "install_program"
    /\ last'.key \in DOMAIN program_status
    /\ program_status[last'.key].is_installed = "True"

\* the installed flag, the version and the ledger are as before the step
FlagVersionLedgerKept(program_key) ==
    /\ program_status'[program_key].is_installed = program_status[program_key].is_installed
    /\ program_status'[program_key].last_installed_version
           = program_status[program_key].last_installed_version
    /\ installation_log' = installation_log
    /\ disk_log' = disk_log

\* C23 as stated: install_program for a key marked installed returns success,
\* runs no command and leaves the installed flag, the version, the error and
\* the ledger as they were, with or without a matched installer.
C23_InstalledIsNoOp ==
    [][InstallOfInstalled
       => /\ last'.result = "True"
          /\ ~Executed(last')
          /\ FlagVersionLedgerKept(last'.key)
          /\ program_status'[last'.key].install_error
                 = program_status[last'.key].install_error]_vars

\* C23: install_program for a key marked installed runs no command and leaves
\* the installed flag, the version and the ledger as they were; with a matched
\* installer it returns success and leaves the error too, without one it
\* returns failure and sets the error "Installer not found".
C23_InstalledRunsNothing ==
    [][InstallOfInstalled
       => /\ ~Executed(last')
          /\ FlagVersionLedgerKept(last'.key)
          /\ IF program_status[last'.key].found_installer # NoInfo
             THEN /\ last'.result = "True"
                  /\ program_status'[last'.key] = program_status[last'.key]
             ELSE /\ last'.result = "False"
                  /\ program_status'[last'.key].install_error
                         = <<"Installer not found">>]_vars

\* install_program has returned success for an installed key that has a
\* matched installer, without running anything
C23_Witness ==
    /\ last.op = "install_program"
    /\ last.result = "True"
    /\ ~Executed(last)
    /\ last.key \in DOMAIN program_status
    /\ program_status[last.key].is_installed = "True"
    /\ program_status[last.key].found_installer # NoInfo

-----------------------------------------------------------------------------
(* The command uninstall_program runs.                                      *)

\* the uninstall string of the key's ledger entry if the ledger has one for
\* the key, else the one found in the registry under the display name
ResolvedByPriority(program_key) ==
    IF program_key \in DOMAIN installation_log
    THEN DictGet(installation_log[program_key], "uninstall_string")
    ELSE IF program_key \in DOMAIN program_status
    THEN DictGet(_get_uninstall_info_from_registry(
                     registry, config.cfg[program_key].display_name, <<>>),
                 "uninstall_string")
    ELSE None

\* C24: uninstall_program runs the command of the key's ledger entry whenever
\* the ledger has an entry for the key, and otherwise the command the registry
\* lookup by display name finds; with no command it returns failure, runs
\* nothing and leaves the ledger and every installed flag as they were.
C24_CommandByPriority ==
    [][last'.op = "uninstall_program"
       => LET cmd_orig == ResolvedByPriority(last'.key)
          IN IF Truthy(cmd_orig)
             THEN /\ Executed(last')
                  /\ last'.cmd = UninstallProgramCmd(cmd_orig, UninstallProductCode(cmd_orig))
             ELSE /\ ~Executed(last')
                  /\ last'.result = "False"
                  /\ installation_log' = installation_log
                  /\ disk_log' = disk_log
                  /\ \A k \in DOMAIN program_status :
                         program_status'[k].is_installed = program_status[k].is_installed]_vars

\* uninstall_program has run the command found in the registry for a key of
\* the catalog that had no ledger entry
C24_Witness ==
    /\ last.op = "uninstall_program"
    /\ ~last.had_entry
    /\ last.key \in DOMAIN program_status
    /\ Executed(last)

-----------------------------------------------------------------------------
(* Enumerate-and-match rules over Uninstall keys whose entries have, or     *)
(* lack, a version string.                                                  *)

\* Uninstall\A: the uninstall entry of App 1, its version not a string
Frag_AppU_NoVersion ==
    (<<"HKLM", "Uninstall", "A">> :>
        Key(V_DisplayName :> SZ(<<"A","p","p"," ","1">>)
            @@ V_UninstallString :> SZ(<<"u","n","a","p","p",".","e","x","e">>)
            @@ V_DisplayVersion :> DWORD))

EnumFrags == {Frag_AppU, Frag_AppU_NoVersion, Frag_AppleU, Frag_ToolU}

EnumRegistries ==
    {Merge(S) : S \in {T \in SUBSET EnumFrags :
                          ~({Frag_AppU, Frag_AppU_NoVersion} \subseteq T)}}

EnumRules == {R_EnumApp, R_EnumTool}

InitEnum ==
    /\ OutsideIdle
    /\ config = Catalog3
    /\ registry \in EnumRegistries
    /\ msi_products = {}
    /\ search_path = None
    /\ program_status = _initialize_program_status(Catalog3)
    /\ unidentified_installers = <<>>
    /\ installation_log = NoLog
    /\ log_file = TRUE
    /\ disk_log = NoLog
    /\ \E check_config \in SeqsUpTo(EnumRules, MaxRules) :
           last = [NoCall EXCEPT !.op = "input", !.rules = check_config]

NextEnum == last.op = "input" /\ CheckRegistryCall(last.rules)

SpecEnum == InitEnum /\ [][NextEnum]_vars

\* the rule iterates the child entries of its path
EnumerateRule(rule) ==
    ~rule.check_existence /\ Truthy(rule.match_value) /\ Truthy(rule.match_pattern)

\* C25: when the rule that decides a check is an enumerate-and-match rule, the
\* version reported is the version value of the first child entry, in
\* enumeration order, whose match value matches the pattern, null if that
\* entry has no such value; later entries have no part in it.
C25_VersionOfFirstMatch ==
    last.op = "check_registry" =>
        LET sat == {i \in 1..Len(last.rules) : C10_Satisfied(registry, last.rules[i])}
            first == CHOOSE i \in sat : \A j \in sat : i <= j
            rule == last.rules[first]
            children == C10_Children(registry, rule)
            child == CHOOSE i \in children : \A j \in children : i <= j
            version == _reg_read_string(
                           registry,
                           RegKey(BaseHive(rule), rule.path) \o <<SubkeyOrder[child]>>,
                           rule.get_value)
        IN (sat # {} /\ EnumerateRule(rule))
               => last.version = IF Truthy(version) THEN version ELSE None

-----------------------------------------------------------------------------
(* _add_silent_flags_to_command as a function of the command text.          *)

\* the most switches a command carries
MaxArgs == 2

\* the programs an uninstall command names: the package manager, an
\* uninstaller, and an uninstaller below a directory named "my-s"
FlagPrograms ==
    {<<"M","s","i","E","x","e","c",".","e","x","e">>,
     <<"u","n",".","e","x","e">>,
     <<"C",":","\\","m","y","-","s","\\","u","n",".","e","x","e">>}

\* the switches a recorded uninstall command may carry
FlagArgs ==
    {<<"/","X","{G1}">>,
     <<"/","I","{G1}">>,
     <<"/","q","n">>,
     <<"/","Q","U","I","E","T">>,
     <<"/","n","o","r","e","s","t","a","r","t">>,
     <<"/","S">>,
     <<"-","q">>}

RECURSIVE WithArgs(_, _)
WithArgs(program, args) ==
    IF args = <<>> THEN program ELSE WithArgs(program \o <<" ">> \o Head(args), Tail(args))

\* the commands, as recorded and with surrounding blanks
FlagCommands ==
    LET plain == {WithArgs(p, a) : p \in FlagPrograms, a \in SeqsUpTo(FlagArgs, MaxArgs)}
    IN plain \cup {<<" ">> \o c \o <<" ">> : c \in plain}

InitFlags ==
    /\ OutsideIdle
    /\ config = Catalog3
    /\ registry = Frag_Base
    /\ msi_products = {}
    /\ search_path = None
    /\ program_status = _initialize_program_status(Catalog3)
    /\ unidentified_installers = <<>>
    /\ installation_log = NoLog
    /\ log_file = TRUE
    /\ disk_log = NoLog
    /\ \E command \in FlagCommands :
           last = [NoCall EXCEPT !.op = "input", !.cmd = command]

\* the function applied to a command, and applied again to what it returned
AddSilentFlagsCall(command) ==
    /\ last' = [NoCall EXCEPT !.op = "_add_silent_flags_to_command",
                              !.cmd = command,
                              !.result = _add_silent_flags_to_command(command),
                              !.repeat = _add_silent_flags_to_command(
                                             _add_silent_flags_to_command(command))]
    /\ UNCHANGED <<config, registry, msi_products, search_path, program_status,
                   unidentified_installers, installation_log, log_file, disk_log,
                   outside>>

NextFlags == last.op = "input" /\ AddSilentFlagsCall(last.cmd)

SpecFlags == InitFlags /\ [][NextFlags]_vars

\* the words of a command, lower-cased: what stands between blanks
RECURSIVE Words(_)
Words(s) ==
    IF s = <<>> THEN <<>>
    ELSE IF Head(s) = " " THEN Words(Tail(s))
    ELSE LET n == IF \E i \in 1..Len(s) : s[i] = " "
                  THEN (CHOOSE i \in 1..Len(s) : s[i] = " " /\ \A j \in 1..(i - 1) : s[j] # " ") - 1
                  ELSE Len(s)
         IN <<Lower(SubSeq(s, 1, n))>> \o Words(SubSeq(s, n + 1, Len(s)))

\* how many words of the command are one of the flags
FlagCount(command, flags) ==
    Cardinality({i \in 1..Len(Words(command)) : Words(command)[i] \in flags})

QuietFlags == {<<"/","q","n">>, <<"/","q","u","i","e","t">>}
NoRestartFlags == {<<"/","n","o","r","e","s","t","a","r","t">>}

\* the switches the list of has_silent_flag names, as words of a command, and
\* the quiet switch of the package manager, which holds '/q'
GenericSilentFlags ==
    {<<"/","s">>, <<"/","s","i","l","e","n","t">>, <<"/","v","e","r","y","s","i","l","e","n","t">>,
     <<"/","q">>, <<"/","q","u","i","e","t">>, <<"-","s">>, <<"-","s","i","l","e","n","t">>,
     <<"-","q">>, <<"/","q","n">>}

\* a package-style uninstall command: it names the package manager and carries
\* a removal switch
PackageStyle(command) ==
    /\ \E i \in 1..Len(Words(command)) : Contains(<<"m","s","i","e","x","e","c">>, Words(command)[i])
    /\ \E i \in 1..Len(Words(command)) :
           \/ StartsWith(Words(command)[i], <<"/","x">>)
           \/ Words(command)[i] = <<"/","u","n","i","n","s","t","a","l","l">>

\* the command already carries the flags of its kind
CarriesFlags(command) ==
    IF PackageStyle(command)
    THEN FlagCount(command, QuietFlags) >= 1 /\ FlagCount(command, NoRestartFlags) >= 1
    ELSE FlagCount(command, GenericSilentFlags) >= 1

\* the command carries no flag twice
NoFlagTwice(command) ==
    /\ FlagCount(command, QuietFlags) <= 1
    /\ FlagCount(command, NoRestartFlags) <= 1
    /\ FlagCount(command, GenericSilentFlags) <= 1

\* C26: applying _add_silent_flags_to_command twice yields what applying it
\* once yields; for a command that carries no flag twice, what it returns
\* carries exactly one quiet flag and one no-restart flag if the command is a
\* package-style uninstall command, and exactly one generic silent flag if it
\* is any other command; and a command that already carries the flags is
\* returned unchanged apart from surrounding blanks.
C26_FlagsInjectedOnce ==
    last.op = "_add_silent_flags_to_command" =>
        /\ last.repeat = last.result
        /\ (PackageStyle(last.cmd) /\ NoFlagTwice(last.cmd)) =>
               /\ FlagCount(last.result, QuietFlags) = 1
               /\ FlagCount(last.result, NoRestartFlags) = 1
        /\ (~PackageStyle(last.cmd) /\ NoFlagTwice(last.cmd)) =>
               FlagCount(last.result, GenericSilentFlags) = 1
        /\ CarriesFlags(last.cmd) => last.result = Strip(last.cmd)

-----------------------------------------------------------------------------
(* The ledger where it cannot be persisted.                                 *)

\* C27: a verified install by install_program leaves an entry for its key in
\* the ledger in memory and returns True, whether or not the engine has a
\* place to keep the ledger file; where it has one, the save that follows
\* writes the whole ledger in memory to the file.
C27_DegradesToMemory ==
    [][(last'.op = "install_program" /\ Executed(last') /\ last'.is_really_installed)
       => /\ last'.result = "True"
          /\ last'.key \in DOMAIN installation_log'
          /\ installation_log'[last'.key]["installer_path"]
                 = program_status'[last'.key].found_installer.path
          /\ log_file => disk_log' = installation_log']_vars

-----------------------------------------------------------------------------
(* Scan results over set_search_path and scan_for_installers.               *)

\* the keys that have a matched installer
MatchedNow(statuses) == {k \in DOMAIN statuses : statuses[k].found_installer # NoInfo}

\* every matched installer and every unidentified installer is one of files
AllAmong(statuses, unidentified, files) ==
    /\ \A k \in MatchedNow(statuses) :
           \E i \in 1..Len(files) : files[i] = statuses[k].found_installer
    /\ \A j \in 1..Len(unidentified) :
           \E i \in 1..Len(files) : files[i] = unidentified[j]

\* C28: a call of set_search_path, whether it succeeds or fails, leaves no
\* matched installer and no unidentified installer of an earlier scan; a call
\* of scan_for_installers, with or without a valid search path, leaves as
\* matched and unidentified installers only artifacts that this scan
\* discovered, and the keys it returns are exactly the keys that have a
\* matched installer afterwards. So what is held at any time was discovered by
\* the most recent scan of the current search path.
C28_ScanResultsSuperseded ==
    [][/\ last'.op = "set_search_path"
          => AllAmong(program_status', unidentified_installers', <<>>)
       /\ last'.op = "scan_for_installers"
          => /\ AllAmong(program_status', unidentified_installers', last'.files)
             /\ {last'.matched_keys[i] : i \in 1..Len(last'.matched_keys)}
                    = MatchedNow(program_status')]_vars

-----------------------------------------------------------------------------
(* The installed flag over the operations of a session.                     *)

\* C22: every key of the catalog starts with an unknown installed flag, and a
\* step changes the flag of a key only if it is a call of
\* check_installation_status, or a call of install_program or
\* uninstall_program for that key that made its post-action check; a call that
\* failed without a check (the process failed, no installer, no command)
\* leaves the flag as it was.
C22_FlagChangesOnlyByCheck ==
    [][/\ last.op = "init" =>
              \A k \in DOMAIN program_status : program_status[k].is_installed = "None"
       /\ \A k \in DOMAIN program_status :
              program_status'[k].is_installed # program_status[k].is_installed
              => \/ last'.op = "check_installation_status"
                 \/ /\ last'.op \in {"install_program", "uninstall_program"}
                    /\ last'.key = k
                    /\ last'.check \in PostChecks]_vars

\* C22 amended: a step changes the installed flag of a key only if it is a call
\* of check_installation_status, a call of install_program or
\* uninstall_program for that key that made its post-action check, or a call
\* of install_program for that key whose process failed, which makes no check
\* and turns an unknown flag into not installed; a call that finds no installer
\* or no command, and an uninstall whose process failed, leave the flag as it
\* was.
C22_FlagChangesByCheckOrFailedInstall ==
    [][/\ last.op = "init" =>
              \A k \in DOMAIN program_status : program_status[k].is_installed = "None"
       /\ \A k \in DOMAIN program_status :
              program_status'[k].is_installed # program_status[k].is_installed
              => \/ last'.op = "check_installation_status"
                 \/ /\ last'.op \in {"install_program", "uninstall_program"}
                    /\ last'.key = k
                    /\ last'.check \in PostChecks
                 \/ /\ last'.op = "install_program"
                    /\ last'.key = k
                    /\ Executed(last')
                    /\ ~last'.ran_ok
                    /\ program_status[k].is_installed = "None"
                    /\ program_status'[k].is_installed = "False"]_vars

\* an install of a key whose process failed: no check was made, the key is
\* marked not installed and carries the exit code as its error
C22_Witness ==
    /\ last.op = "install_program"
    /\ Executed(last)
    /\ ~last.ran_ok
    /\ last.check = "none"
    /\ last.result = "False"
    /\ program_status[last.key].is_installed = "False"
    /\ \E c \in ReturnCodes \ success_codes :
           program_status[last.key].install_error = FailedCode("Failed (Code ", c)

-----------------------------------------------------------------------------
(* The version of a status next to its installed flag.                      *)

\* C29: in every state and for every key of the catalog,
\* last_installed_version is set only if is_installed is True, also while a
\* status check runs next to an install or an uninstall of the key.
C29_VersionOnlyIfInstalled ==
    \A k \in DOMAIN program_status :
        program_status[k].last_installed_version # None
        => program_status[k].is_installed = "True"

-----------------------------------------------------------------------------
(* WorkerThread.run around its task, and WorkerThread.stop.  The task runs  *)
(* as in the steps of a worker above, where "finished" is the return of the *)
(* engine method; run() then tests the flag, emits task_complete and resets *)
(* the flag.  stop() is called by closeEvent from the thread of the window. *)

\* a WorkerThread with its flag, the point its task was at when stop() was
\* called, and the results it has emitted with task_complete
CancellableWorker(task_name, arg) ==
    [_is_running |-> TRUE, stopped_at |-> "", emitted |-> <<>>] @@ Worker(task_name, arg)

\* the steps of run() after which the thread is over
Over == {"done", "dead"}

\* stop(): closeEvent calls it once for every thread that is running
stop(t) ==
    /\ threads[t].pc \notin Over
    /\ threads[t].stopped_at = ""
    /\ threads' = [threads EXCEPT ![t]._is_running = FALSE,
                                  ![t].stopped_at = threads[t].pc]
    /\ UNCHANGED <<fixed, installation_log, program_status, fs>>

\* an exception leaves the try block before the command has run
TaskRaises(t) ==
    /\ threads[t].pc = "run"
    /\ threads' = [threads EXCEPT ![t].pc = "raised"]
    /\ UNCHANGED <<fixed, installation_log, program_status, fs>>

\* "if not self._is_running:" after the task has returned: a cancelled task
\* emits None and returns through finally
AfterTask(t) ==
    /\ threads[t].pc = "finished"
    /\ threads' = IF ~threads[t]._is_running
                  THEN [threads EXCEPT ![t].emitted = Append(@, "None"),
                                       ![t].pc = "finally"]
                  ELSE [threads EXCEPT ![t].pc = "emit"]
    /\ UNCHANGED <<fixed, installation_log, program_status, fs>>

\* "if self._is_running: self.task_complete.emit(self.task_name, result)"
EmitComplete(t) ==
    /\ threads[t].pc = "emit"
    /\ threads' = IF threads[t]._is_running
                  THEN [threads EXCEPT ![t].emitted = Append(@, "result"),
                                       ![t].pc = "finally"]
                  ELSE [threads EXCEPT ![t].pc = "finally"]
    /\ UNCHANGED <<fixed, installation_log, program_status, fs>>

\* "except Exception as e: if self._is_running: ... emit(self.task_name, None)"
HandleError(t) ==
    /\ threads[t].pc = "raised"
    /\ threads' = IF threads[t]._is_running
                  THEN [threads EXCEPT ![t].emitted = Append(@, "None"),
                                       ![t].pc = "finally"]
                  ELSE [threads EXCEPT ![t].pc = "finally"]
    /\ UNCHANGED <<fixed, installation_log, program_status, fs>>

\* "finally: self._is_running = False"
Finally(t) ==
    /\ threads[t].pc = "finally"
    /\ threads' = [threads EXCEPT ![t]._is_running = FALSE, ![t].pc = "done"]
    /\ UNCHANGED <<fixed, installation_log, program_status, fs>>

\* one install or uninstall task of 'app', next to the ledger of an earlier
\* session or an empty one
InitCancel ==
    /\ config = Catalog2
    /\ registry = Frag_Base
    /\ msi_products = {}
    /\ search_path = <<"R1">>
    /\ unidentified_installers = <<>>
    /\ log_file = TRUE
    /\ disk_log = NoLog
    /\ tree = <<>>
    /\ ui = <<>>
    /\ last = NoCall
    /\ active_threads = <<1>>
    /\ \E task_name \in {"install", "uninstall"}, old \in BOOLEAN :
          LET installed == IF task_name = "uninstall" THEN {"app"} ELSE {}
              log == [k \in installed \cup (IF old THEN {"old"} ELSE {}) |->
                         IF k = "old" THEN OldEntry ELSE TaskEntry(k)]
          IN /\ threads = <<CancellableWorker(task_name, "app")>>
             /\ installation_log = log
             /\ program_status = Statuses(installed)
             /\ fs = [log |-> File(Dump(log)), tmp |-> NoFile, corrupt |-> NoFile]

NextCancel ==
    \E t \in DOMAIN threads :
        \/ WorkerStep(t)
        \/ TaskRaises(t)
        \/ AfterTask(t)
        \/ EmitComplete(t)
        \/ HandleError(t)
        \/ Finally(t)
        \/ stop(t)

SpecCancel == InitCancel /\ [][NextCancel]_vars

\* stop() was called for the thread while its command was running
StoppedInCommand(t) == threads[t].stopped_at = "run"

\* C21: stop() leaves the task where it is, so the process it has started
\* runs to its end; and once stop() has been called while the command of a
\* task was running, no later step of that task changes a status, the ledger
\* in memory or the ledger file.
C21_CancelSkipsBookkeeping ==
    [][\A t \in DOMAIN threads :
          /\ threads'[t].stopped_at # threads[t].stopped_at
                 => threads'[t].pc = threads[t].pc
          /\ StoppedInCommand(t)
                 => /\ program_status' = program_status
                    /\ installation_log' = installation_log
                    /\ fs'.log = fs.log]_vars

\* C30: a WorkerThread whose run() is over has emitted task_complete exactly
\* once, whenever stop() was called.
C30_CompleteExactlyOnce ==
    \A t \in DOMAIN threads :
        threads[t].pc = "done" => Len(threads[t].emitted) = 1

====
